---- MODULE Spec2Model ----
(***************************************************************************)
(* Authentication and authorization service (PRPO-skupina-02/auth).        *)
(*                                                                         *)
(* The state is the user table of the credential store, the clock, the     *)
(* tokens the service has handed out so far (the service itself keeps no   *)
(* token state: the set is what the clients hold) and the last request     *)
(* with its response.  One action per HTTP route; an action is the whole   *)
(* gin handler chain of the route (AuthMiddleware, RequireAdmin, handler). *)
(***************************************************************************)
EXTENDS Integers, Sequences, FiniteSets, TLC

VARIABLES
    users,      \* the users table: id -> row
    nextId,     \* ids handed out so far are 1 .. nextId - 1 (gen_random_uuid never repeats)
    now,        \* the clock, in days
    tokens,     \* the token pairs issued so far, each with the subject's role at issuance
    resp        \* the last request and its response

vars == <<users, nextId, now, tokens, resp>>

----------------------------------------------------------------------------
(* Bounds of the model *)

MaxUsers == 2
MaxTokens == 2
MaxTime == 1

(* Program constants *)

AccessTTL == 1
RefreshTTL == 7
ExpiresIn == 86400
SecondsPerDay == 86400

StatusOK == 200
StatusCreated == 201
StatusNoContent == 204
StatusBadRequest == 400
StatusUnauthorized == 401
StatusForbidden == 403
StatusNotFound == 404
StatusConflict == 409

RoleCustomer == "customer"
RoleEmployee == "employee"
RoleAdmin == "admin"
Roles == {RoleCustomer, RoleEmployee, RoleAdmin}

IsValid(r) == r \in {RoleCustomer, RoleEmployee, RoleAdmin}

----------------------------------------------------------------------------
(* Inputs *)

Ids == 1 .. MaxUsers
AdminEmail == "admin@example.com"
Emails == {AdminEmail, "customer@example.com"}
Passwords == {"admin123", "password123"}
ShortPassword == "short"

----------------------------------------------------------------------------
(* models.User *)

Hash(password) == <<"bcrypt", password>>

\* mutant: the password is stored as given
SetPasswordPlain(u, password) == [u EXCEPT !.PasswordHash = <<"plain", password>>]

SetPassword(u, password) == [u EXCEPT !.PasswordHash = Hash(password)]

\* TRUE when bcrypt.CompareHashAndPassword returns nil
CheckPassword(u, password) == u.PasswordHash = Hash(password)

\* mutant: the existence test never finds the address
UserExistsNever(email) == FALSE

UserExists(email) == \E id \in DOMAIN users : users[id].Email = email

UserFound(id) == id \in DOMAIN users

GetUserByEmail(email) == CHOOSE id \in DOMAIN users : users[id].Email = email

\* tx.Save: update by primary key, insert when no row has it
\* the row tx.Save writes, which it also leaves in u: UpdatedAt is the time of the write
Saved(u) == [u EXCEPT !.UpdatedAt = now]

Save(u) == [id \in DOMAIN users \cup {u.ID} |-> IF id = u.ID THEN Saved(u) ELSE users[id]]

\* mutant: the row is kept
DeleteNothing(u) == users

Delete(u) == [id \in DOMAIN users \ {u.ID} |-> users[id]]

\* mutant: an unknown e-mail address has an answer of its own
ValidateCredentialsNotFound(email, password) ==
    IF ~UserExists(email)
    THEN [ok |-> FALSE, err |-> "user not found", id |-> 0]
    ELSE LET id == GetUserByEmail(email) IN
         IF ~users[id].Active
         THEN [ok |-> FALSE, err |-> "user account is inactive", id |-> 0]
         ELSE IF ~CheckPassword(users[id], password)
         THEN [ok |-> FALSE, err |-> "invalid credentials", id |-> 0]
         ELSE [ok |-> TRUE, err |-> "", id |-> id]

\* mutant: the password is checked before the active flag
ValidateCredentialsPasswordFirst(email, password) ==
    IF ~UserExists(email)
    THEN [ok |-> FALSE, err |-> "invalid credentials", id |-> 0]
    ELSE LET id == GetUserByEmail(email) IN
         IF ~CheckPassword(users[id], password)
         THEN [ok |-> FALSE, err |-> "invalid credentials", id |-> 0]
         ELSE IF ~users[id].Active
         THEN [ok |-> FALSE, err |-> "user account is inactive", id |-> 0]
         ELSE [ok |-> TRUE, err |-> "", id |-> id]

\* mutant: the active flag is not checked
ValidateCredentialsNoActive(email, password) ==
    IF ~UserExists(email)
    THEN [ok |-> FALSE, err |-> "invalid credentials", id |-> 0]
    ELSE LET id == GetUserByEmail(email) IN
         IF ~CheckPassword(users[id], password)
         THEN [ok |-> FALSE, err |-> "invalid credentials", id |-> 0]
         ELSE [ok |-> TRUE, err |-> "", id |-> id]

ValidateCredentials(email, password) ==
    IF ~UserExists(email)
    THEN [ok |-> FALSE, err |-> "invalid credentials", id |-> 0]
    ELSE LET id == GetUserByEmail(email) IN
         IF ~users[id].Active
         THEN [ok |-> FALSE, err |-> "user account is inactive", id |-> 0]
         ELSE IF ~CheckPassword(users[id], password)
         THEN [ok |-> FALSE, err |-> "invalid credentials", id |-> 0]
         ELSE [ok |-> TRUE, err |-> "", id |-> id]

----------------------------------------------------------------------------
(* Token engine (package auth).  A token string is the characters "eyJ.",  *)
(* the claims (subject id, subject email, expiry), "." and the signature   *)
(* over the claims under the process-wide secret.                          *)

JWTSecret == "dev-secret-key-change-in-production"

Sign(secret, uid, email, exp) == <<secret, uid, email, exp>>

Encode(uid, email, exp, sig) == <<"e", "y", "J", ".", uid, email, exp, ".", sig>>

GenerateTokenAt(uid, email, t) ==
    Encode(uid, email, t + AccessTTL, Sign(JWTSecret, uid, email, t + AccessTTL))

GenerateRefreshTokenAt(uid, email, t) ==
    Encode(uid, email, t + RefreshTTL, Sign(JWTSecret, uid, email, t + RefreshTTL))

GenerateToken(uid, email) == GenerateTokenAt(uid, email, now)

GenerateRefreshToken(uid, email) == GenerateRefreshTokenAt(uid, email, now)

WellFormed(s) ==
    /\ Len(s) = 9
    /\ SubSeq(s, 1, 4) = <<"e", "y", "J", ".">>
    /\ s[8] = "."

\* mutant: the claims come back without the e-mail address
ValidateTokenNoEmail(s) ==
    IF /\ WellFormed(s)
       /\ s[9] = Sign(JWTSecret, s[5], s[6], s[7])
       /\ now < s[7]
    THEN [ok |-> TRUE, UserID |-> s[5], Email |-> ""]
    ELSE [ok |-> FALSE, UserID |-> 0, Email |-> ""]

\* mutant: the expiry is not looked at
ValidateTokenNoExpiry(s) ==
    IF /\ WellFormed(s)
       /\ s[9] = Sign(JWTSecret, s[5], s[6], s[7])
    THEN [ok |-> TRUE, UserID |-> s[5], Email |-> s[6]]
    ELSE [ok |-> FALSE, UserID |-> 0, Email |-> ""]

\* mutant: the signature is not verified
ValidateTokenNoSignature(s) ==
    IF /\ WellFormed(s)
       /\ now < s[7]
    THEN [ok |-> TRUE, UserID |-> s[5], Email |-> s[6]]
    ELSE [ok |-> FALSE, UserID |-> 0, Email |-> ""]

ValidateToken(s) ==
    IF /\ WellFormed(s)
       /\ s[9] = Sign(JWTSecret, s[5], s[6], s[7])
       /\ now < s[7]
    THEN [ok |-> TRUE, UserID |-> s[5], Email |-> s[6]]
    ELSE [ok |-> FALSE, UserID |-> 0, Email |-> ""]

\* a token string with one byte of its signature segment changed
Tamper(s) == [s EXCEPT ![9] = <<"x">> \o Tail(s[9])]

\* a token string with part k of its signature segment changed
TamperAt(s, k) == [s EXCEPT ![9][k] = IF k \in {1, 3} THEN "x" ELSE @ + 1]

\* the claims of s signed with a secret that is not the process's
Forge(s) == [s EXCEPT ![9] = Sign("another-secret", s[5], s[6], s[7])]

GarbageToken == <<"i", "n", "v", "a", "l", "i", "d">>

EmptyToken == <<>>

\* the token strings handed out so far
Issued == {t.access : t \in tokens} \cup {t.refresh : t \in tokens}

----------------------------------------------------------------------------
(* Authorization headers *)

bearerPrefix == <<"B", "e", "a", "r", "e", "r", " ">>
otherPrefix == <<"T", "o", "k", "e", "n", ":", " ">>

NoHeader == <<>>
ShortHeader == <<"B", "e", "a", "r", "e", "r">>

\* the access tokens handed out so far
Access == {t.access : t \in tokens}

\* the token strings a request may carry: the issued ones, access tokens with a
\* changed signature, and a string that is no token
TokenStrings == Issued \cup {Tamper(s) : s \in Access} \cup {GarbageToken}

\* every form of header: absent, too short, Bearer and a token string, another
\* prefix of the same length and a token, a token with no prefix
Headers ==
    {NoHeader, ShortHeader}
        \cup {bearerPrefix \o s : s \in TokenStrings}
        \cup {otherPrefix \o s : s \in Access}
        \cup Access

\* the headers a client of the service sends: none, or Bearer and its access token
ClientHeaders == {NoHeader} \cup {bearerPrefix \o s : s \in Access}

----------------------------------------------------------------------------
(* Request context and responses *)

NoCtx == <<>>

NoBody == [kind |-> "none"]

ErrorBody(msg) == [kind |-> "error", error |-> msg]

\* newUserResponse: the password hash is not part of it
newUserResponse(u) ==
    [kind |-> "user", id |-> u.ID, created_at |-> u.CreatedAt, updated_at |-> u.UpdatedAt,
     email |-> u.Email, first_name |-> u.FirstName, last_name |-> u.LastName,
     role |-> u.Role, active |-> u.Active]

\* mutant: the lifetime reported is an hour
TokenResponseHour(access, refresh) ==
    [kind |-> "tokens", access_token |-> access, refresh_token |-> refresh,
     expires_in |-> 3600]

TokenResponse(access, refresh) ==
    [kind |-> "tokens", access_token |-> access, refresh_token |-> refresh,
     expires_in |-> ExpiresIn]

Response(op, cred, status, body, ctx, handler) ==
    [op |-> op, cred |-> cred, status |-> status, body |-> body, ctx |-> ctx,
     handler |-> handler]

----------------------------------------------------------------------------
(* Middleware.  A result with status 0 is c.Next(). *)

\* mutant: the published role is the one the subject had when the token was issued
AuthMiddlewareIssuedRole(authHeader) ==
    IF authHeader = <<>>
    THEN [status |-> StatusUnauthorized, error |-> "Authorization header required", ctx |-> NoCtx]
    ELSE IF Len(authHeader) < Len(bearerPrefix)
    THEN [status |-> StatusUnauthorized, error |-> "Invalid authorization header format", ctx |-> NoCtx]
    ELSE LET tokenString == SubSeq(authHeader, Len(bearerPrefix) + 1, Len(authHeader))
             claims == ValidateToken(tokenString)
         IN  IF ~claims.ok
             THEN [status |-> StatusUnauthorized, error |-> "Invalid or expired token", ctx |-> NoCtx]
             ELSE IF ~UserFound(claims.UserID)
             THEN [status |-> StatusUnauthorized, error |-> "User not found", ctx |-> NoCtx]
             ELSE IF ~users[claims.UserID].Active
             THEN [status |-> StatusUnauthorized, error |-> "User account is inactive", ctx |-> NoCtx]
             ELSE [status |-> 0, error |-> "",
                   ctx |-> [user_id |-> claims.UserID, user_email |-> claims.Email,
                            user_role |->
                                (CHOOSE t \in tokens :
                                     tokenString \in {t.access, t.refresh}).role]]

\* mutant: the active flag of the subject is not checked
AuthMiddlewareNoActive(authHeader) ==
    IF authHeader = <<>>
    THEN [status |-> StatusUnauthorized, error |-> "Authorization header required", ctx |-> NoCtx]
    ELSE IF Len(authHeader) < Len(bearerPrefix)
    THEN [status |-> StatusUnauthorized, error |-> "Invalid authorization header format", ctx |-> NoCtx]
    ELSE LET tokenString == SubSeq(authHeader, Len(bearerPrefix) + 1, Len(authHeader))
             claims == ValidateToken(tokenString)
         IN  IF ~claims.ok
             THEN [status |-> StatusUnauthorized, error |-> "Invalid or expired token", ctx |-> NoCtx]
             ELSE IF ~UserFound(claims.UserID)
             THEN [status |-> StatusUnauthorized, error |-> "User not found", ctx |-> NoCtx]
             ELSE [status |-> 0, error |-> "",
                   ctx |-> [user_id |-> claims.UserID, user_email |-> claims.Email,
                            user_role |-> users[claims.UserID].Role]]

AuthMiddleware(authHeader) ==
    IF authHeader = <<>>
    THEN [status |-> StatusUnauthorized, error |-> "Authorization header required", ctx |-> NoCtx]
    ELSE IF Len(authHeader) < Len(bearerPrefix)
    THEN [status |-> StatusUnauthorized, error |-> "Invalid authorization header format", ctx |-> NoCtx]
    ELSE LET tokenString == SubSeq(authHeader, Len(bearerPrefix) + 1, Len(authHeader))
             claims == ValidateToken(tokenString)
         IN  IF ~claims.ok
             THEN [status |-> StatusUnauthorized, error |-> "Invalid or expired token", ctx |-> NoCtx]
             ELSE IF ~UserFound(claims.UserID)
             THEN [status |-> StatusUnauthorized, error |-> "User not found", ctx |-> NoCtx]
             ELSE IF ~users[claims.UserID].Active
             THEN [status |-> StatusUnauthorized, error |-> "User account is inactive", ctx |-> NoCtx]
             ELSE [status |-> 0, error |-> "",
                   ctx |-> [user_id |-> claims.UserID, user_email |-> claims.Email,
                            user_role |-> users[claims.UserID].Role]]

\* mutant: a request with no published role passes
RequireRoleFailOpen(ctx, roles) ==
    IF "user_role" \notin DOMAIN ctx
    THEN [status |-> 0, error |-> ""]
    ELSE IF \E i \in 1 .. Len(roles) : ctx.user_role = roles[i]
    THEN [status |-> 0, error |-> ""]
    ELSE [status |-> StatusForbidden, error |-> "Insufficient permissions"]

\* mutant: admin passes every gate
RequireRoleHierarchy(ctx, roles) ==
    IF "user_role" \notin DOMAIN ctx
    THEN [status |-> StatusForbidden, error |-> "Role information not found"]
    ELSE IF ctx.user_role = RoleAdmin \/ \E i \in 1 .. Len(roles) : ctx.user_role = roles[i]
    THEN [status |-> 0, error |-> ""]
    ELSE [status |-> StatusForbidden, error |-> "Insufficient permissions"]

\* roles is the sequence of the variadic arguments
RequireRole(ctx, roles) ==
    IF "user_role" \notin DOMAIN ctx
    THEN [status |-> StatusForbidden, error |-> "Role information not found"]
    ELSE IF \E i \in 1 .. Len(roles) : ctx.user_role = roles[i]
    THEN [status |-> 0, error |-> ""]
    ELSE [status |-> StatusForbidden, error |-> "Insufficient permissions"]

RequireAdmin(ctx) == RequireRole(ctx, <<RoleAdmin>>)

\* the chain of the protected group: AuthMiddleware
ProtectedChain(authHeader) == AuthMiddleware(authHeader)

\* mutant: the admin group is registered without RequireAdmin
AdminChainNoRole(authHeader) == AuthMiddleware(authHeader)

\* the chain of the admin group: AuthMiddleware, then RequireAdmin
\* mutant: RequireAdmin is registered before AuthMiddleware
AdminChainRoleFirst(authHeader) ==
    LET rr == RequireAdmin(NoCtx) IN
    IF rr.status # 0 THEN [status |-> rr.status, error |-> rr.error, ctx |-> NoCtx]
    ELSE AuthMiddleware(authHeader)

AdminChain(authHeader) ==
    LET mw == AuthMiddleware(authHeader) IN
    IF mw.status # 0 THEN mw
    ELSE LET rr == RequireAdmin(mw.ctx) IN
         [status |-> rr.status, error |-> rr.error, ctx |-> mw.ctx]

\* the response of a request a middleware aborted
Aborted(op, authHeader, mw) ==
    Response(op, authHeader, mw.status, ErrorBody(mw.error), mw.ctx, FALSE)

----------------------------------------------------------------------------
(* Request binding (gin ShouldBindJSON).  The e-mail addresses and target  *)
(* ids of the model are all well formed; a password may be too short.      *)

MinPasswordLen == 8

BindRegister(email, password) == email # "" /\ Len(password) >= MinPasswordLen

BindLogin(email, password) == email # "" /\ password # ""

\* mutant: the role of the request is not validated
BindAdminCreateAnyRole(email, password, role) ==
    /\ email # ""
    /\ Len(password) >= MinPasswordLen

BindAdminCreate(email, password, role) ==
    /\ email # ""
    /\ Len(password) >= MinPasswordLen
    /\ role \in {"customer", "employee", "admin"}

BindChangePassword(old, new) == old # "" /\ Len(new) >= MinPasswordLen

\* the token field of the Verify and Refresh requests is required
BindToken(token) == token # EmptyToken

ValidationError(op, cred, ctx) ==
    Response(op, cred, StatusBadRequest, ErrorBody("validation"), ctx, TRUE)

\* the first field of AdminCreateUserRequest that fails its binding
AdminCreateField(email, password, role) ==
    IF email = "" THEN "Email"
    ELSE IF Len(password) < MinPasswordLen THEN "Password"
    ELSE "Role"

\* the validator's error names the field
FieldError(op, cred, ctx, field) ==
    Response(op, cred, StatusBadRequest,
             [kind |-> "error", error |-> "validation", field |-> field], ctx, TRUE)

\* an optional (pointer) field of a request: <<>> is absent, <<v>> is v
Opt(S) == {<<>>} \cup {<<v>> : v \in S}

----------------------------------------------------------------------------
(* The store's row for a new user.  The id is the table's default          *)
(* gen_random_uuid(); gorm writes a column's default in place of a zero    *)
(* value of a field tagged with a default (Role, Active).                  *)

NewRow(u) ==
    [u EXCEPT !.ID = nextId,
              !.CreatedAt = now,
              !.UpdatedAt = now,
              !.Role = IF u.Role = "" THEN RoleCustomer ELSE u.Role,
              !.Active = IF u.Active = FALSE THEN TRUE ELSE u.Active]

Create(u) == [id \in DOMAIN users \cup {nextId} |-> IF id = nextId THEN NewRow(u) ELSE users[id]]

Issue(access, refresh, role) ==
    tokens \cup {[access |-> access, refresh |-> refresh, role |-> role]}

----------------------------------------------------------------------------
(* Public routes *)

\* mutant: the new user is given another role
RegisterUserAsEmployee(email, password, first, last) ==
    IF ~BindRegister(email, password)
    THEN /\ resp' = ValidationError("RegisterUser", <<>>, NoCtx)
         /\ UNCHANGED <<users, nextId, now, tokens>>
    ELSE IF UserExists(email)
    THEN /\ resp' = Response("RegisterUser", <<>>, StatusConflict,
                             ErrorBody("User with this email already exists"), NoCtx, TRUE)
         /\ UNCHANGED <<users, nextId, now, tokens>>
    ELSE LET user == SetPassword([ID |-> 0, CreatedAt |-> 0, UpdatedAt |-> 0, Email |-> email, PasswordHash |-> <<>>,
                                  FirstName |-> first, LastName |-> last,
                                  Role |-> RoleEmployee, Active |-> TRUE], password)
         IN  /\ nextId <= MaxUsers
             /\ users' = Create(user)
             /\ nextId' = nextId + 1
             /\ resp' = Response("RegisterUser", <<>>, StatusCreated,
                                 newUserResponse(NewRow(user)), NoCtx, TRUE)
             /\ UNCHANGED <<now, tokens>>

RegisterUser(email, password, first, last) ==
    IF ~BindRegister(email, password)
    THEN /\ resp' = ValidationError("RegisterUser", <<>>, NoCtx)
         /\ UNCHANGED <<users, nextId, now, tokens>>
    ELSE IF UserExists(email)
    THEN /\ resp' = Response("RegisterUser", <<>>, StatusConflict,
                             ErrorBody("User with this email already exists"), NoCtx, TRUE)
         /\ UNCHANGED <<users, nextId, now, tokens>>
    ELSE LET user == SetPassword([ID |-> 0, CreatedAt |-> 0, UpdatedAt |-> 0, Email |-> email, PasswordHash |-> <<>>,
                                  FirstName |-> first, LastName |-> last,
                                  Role |-> RoleCustomer, Active |-> TRUE], password)
         IN  /\ nextId <= MaxUsers
             /\ users' = Create(user)
             /\ nextId' = nextId + 1
             /\ resp' = Response("RegisterUser", <<>>, StatusCreated,
                                 newUserResponse(NewRow(user)), NoCtx, TRUE)
             /\ UNCHANGED <<now, tokens>>

\* the response Login sends
LoginReply(email, password) ==
    IF ~BindLogin(email, password)
    THEN ValidationError("Login", <<>>, NoCtx)
    ELSE LET v == ValidateCredentials(email, password) IN
         IF ~v.ok
         THEN Response("Login", <<>>, StatusUnauthorized, ErrorBody(v.err), NoCtx, TRUE)
         ELSE LET user == users[v.id] IN
              Response("Login", <<>>, StatusOK,
                       TokenResponse(GenerateToken(user.ID, user.Email),
                                     GenerateRefreshToken(user.ID, user.Email)),
                       NoCtx, TRUE)

\* mutant: a successful login saves the user, which stamps UpdatedAt
LoginTouches(email, password) ==
    LET reply == LoginReply(email, password) IN
    IF reply.status # StatusOK
    THEN /\ resp' = reply
         /\ UNCHANGED <<users, nextId, now, tokens>>
    ELSE LET user == users[ValidateCredentials(email, password).id]
             issued == Issue(reply.body.access_token, reply.body.refresh_token, user.Role)
         IN  /\ Cardinality(issued) <= MaxTokens
             /\ tokens' = issued
             /\ users' = Save(user)
             /\ resp' = reply
             /\ UNCHANGED <<nextId, now>>


Login(email, password) ==
    LET reply == LoginReply(email, password) IN
    IF reply.status # StatusOK
    THEN /\ resp' = reply
         /\ UNCHANGED <<users, nextId, now, tokens>>
    ELSE LET role == users[ValidateCredentials(email, password).id].Role
             issued == Issue(reply.body.access_token, reply.body.refresh_token, role)
         IN  /\ Cardinality(issued) <= MaxTokens
             /\ tokens' = issued
             /\ resp' = reply
             /\ UNCHANGED <<users, nextId, now>>

\* mutant: the role in the profile is the one the subject had when the token was issued
VerifyTokenIssuedRole(token) ==
    LET claims == ValidateToken(token) IN
    /\ resp' =
         IF ~BindToken(token)
         THEN ValidationError("VerifyToken", token, NoCtx)
         ELSE IF ~claims.ok
         THEN Response("VerifyToken", token, StatusUnauthorized,
                       ErrorBody("Invalid or expired token"), NoCtx, TRUE)
         ELSE IF ~UserFound(claims.UserID)
         THEN Response("VerifyToken", token, StatusUnauthorized,
                       ErrorBody("User not found"), NoCtx, TRUE)
         ELSE IF ~users[claims.UserID].Active
         THEN Response("VerifyToken", token, StatusUnauthorized,
                       ErrorBody("User account is inactive"), NoCtx, TRUE)
         ELSE Response("VerifyToken", token, StatusOK,
                       [newUserResponse(users[claims.UserID]) EXCEPT
                           !.role = (CHOOSE t \in tokens :
                                         token \in {t.access, t.refresh}).role],
                       NoCtx, TRUE)
    /\ UNCHANGED <<users, nextId, now, tokens>>

\* mutant: the subject's active flag is not looked at
VerifyTokenNoActive(token) ==
    LET claims == ValidateToken(token) IN
    /\ resp' =
         IF ~BindToken(token)
         THEN ValidationError("VerifyToken", token, NoCtx)
         ELSE IF ~claims.ok
         THEN Response("VerifyToken", token, StatusUnauthorized,
                       ErrorBody("Invalid or expired token"), NoCtx, TRUE)
         ELSE IF ~UserFound(claims.UserID)
         THEN Response("VerifyToken", token, StatusUnauthorized,
                       ErrorBody("User not found"), NoCtx, TRUE)
         ELSE Response("VerifyToken", token, StatusOK,
                       newUserResponse(users[claims.UserID]), NoCtx, TRUE)
    /\ UNCHANGED <<users, nextId, now, tokens>>

VerifyToken(token) ==
    LET claims == ValidateToken(token) IN
    /\ resp' =
         IF ~BindToken(token)
         THEN ValidationError("VerifyToken", token, NoCtx)
         ELSE IF ~claims.ok
         THEN Response("VerifyToken", token, StatusUnauthorized,
                       ErrorBody("Invalid or expired token"), NoCtx, TRUE)
         ELSE IF ~UserFound(claims.UserID)
         THEN Response("VerifyToken", token, StatusUnauthorized,
                       ErrorBody("User not found"), NoCtx, TRUE)
         ELSE IF ~users[claims.UserID].Active
         THEN Response("VerifyToken", token, StatusUnauthorized,
                       ErrorBody("User account is inactive"), NoCtx, TRUE)
         ELSE Response("VerifyToken", token, StatusOK,
                       newUserResponse(users[claims.UserID]), NoCtx, TRUE)
    /\ UNCHANGED <<users, nextId, now, tokens>>

\* mutant: only a refresh token is taken
RefreshTokenRefreshOnly(token) ==
    LET claims == ValidateToken(token) IN
    IF ~BindToken(token)
    THEN /\ resp' = ValidationError("RefreshToken", token, NoCtx)
         /\ UNCHANGED <<users, nextId, now, tokens>>
    ELSE IF ~claims.ok \/ token \in Access
    THEN /\ resp' = Response("RefreshToken", token, StatusUnauthorized,
                             ErrorBody("Invalid or expired refresh token"), NoCtx, TRUE)
         /\ UNCHANGED <<users, nextId, now, tokens>>
    ELSE IF ~UserFound(claims.UserID)
    THEN /\ resp' = Response("RefreshToken", token, StatusUnauthorized,
                             ErrorBody("User not found"), NoCtx, TRUE)
         /\ UNCHANGED <<users, nextId, now, tokens>>
    ELSE IF ~users[claims.UserID].Active
    THEN /\ resp' = Response("RefreshToken", token, StatusUnauthorized,
                             ErrorBody("User account is inactive"), NoCtx, TRUE)
         /\ UNCHANGED <<users, nextId, now, tokens>>
    ELSE LET user == users[claims.UserID]
             accessToken == GenerateToken(user.ID, user.Email)
             newRefreshToken == GenerateRefreshToken(user.ID, user.Email)
         IN  /\ Cardinality(Issue(accessToken, newRefreshToken, user.Role)) <= MaxTokens
             /\ tokens' = Issue(accessToken, newRefreshToken, user.Role)
             /\ resp' = Response("RefreshToken", token, StatusOK,
                                 TokenResponse(accessToken, newRefreshToken), NoCtx, TRUE)
             /\ UNCHANGED <<users, nextId, now>>

\* mutant: the active flag of the subject is not checked
RefreshTokenNoActive(token) ==
    LET claims == ValidateToken(token) IN
    IF ~BindToken(token)
    THEN /\ resp' = ValidationError("RefreshToken", token, NoCtx)
         /\ UNCHANGED <<users, nextId, now, tokens>>
    ELSE IF ~claims.ok
    THEN /\ resp' = Response("RefreshToken", token, StatusUnauthorized,
                             ErrorBody("Invalid or expired refresh token"), NoCtx, TRUE)
         /\ UNCHANGED <<users, nextId, now, tokens>>
    ELSE IF ~UserFound(claims.UserID)
    THEN /\ resp' = Response("RefreshToken", token, StatusUnauthorized,
                             ErrorBody("User not found"), NoCtx, TRUE)
         /\ UNCHANGED <<users, nextId, now, tokens>>
    ELSE LET user == users[claims.UserID]
             accessToken == GenerateToken(user.ID, user.Email)
             newRefreshToken == GenerateRefreshToken(user.ID, user.Email)
         IN  /\ Cardinality(Issue(accessToken, newRefreshToken, user.Role)) <= MaxTokens
             /\ tokens' = Issue(accessToken, newRefreshToken, user.Role)
             /\ resp' = Response("RefreshToken", token, StatusOK,
                                 TokenResponse(accessToken, newRefreshToken), NoCtx, TRUE)
             /\ UNCHANGED <<users, nextId, now>>

\* mutant: a refresh token is refused once another pair exists for its subject
RefreshTokenRotating(token) ==
    LET claims == ValidateToken(token) IN
    IF ~BindToken(token)
    THEN /\ resp' = ValidationError("RefreshToken", token, NoCtx)
         /\ UNCHANGED <<users, nextId, now, tokens>>
    ELSE IF \/ ~claims.ok
            \/ \E t \in tokens : t.refresh[5] = claims.UserID /\ token \notin {t.access, t.refresh}
    THEN /\ resp' = Response("RefreshToken", token, StatusUnauthorized,
                             ErrorBody("Invalid or expired refresh token"), NoCtx, TRUE)
         /\ UNCHANGED <<users, nextId, now, tokens>>
    ELSE IF ~UserFound(claims.UserID)
    THEN /\ resp' = Response("RefreshToken", token, StatusUnauthorized,
                             ErrorBody("User not found"), NoCtx, TRUE)
         /\ UNCHANGED <<users, nextId, now, tokens>>
    ELSE IF ~users[claims.UserID].Active
    THEN /\ resp' = Response("RefreshToken", token, StatusUnauthorized,
                             ErrorBody("User account is inactive"), NoCtx, TRUE)
         /\ UNCHANGED <<users, nextId, now, tokens>>
    ELSE LET user == users[claims.UserID]
             accessToken == GenerateToken(user.ID, user.Email)
             newRefreshToken == GenerateRefreshToken(user.ID, user.Email)
         IN  /\ Cardinality(Issue(accessToken, newRefreshToken, user.Role)) <= MaxTokens
             /\ tokens' = Issue(accessToken, newRefreshToken, user.Role)
             /\ resp' = Response("RefreshToken", token, StatusOK,
                                 TokenResponse(accessToken, newRefreshToken), NoCtx, TRUE)
             /\ UNCHANGED <<users, nextId, now>>

RefreshToken(token) ==
    LET claims == ValidateToken(token) IN
    IF ~BindToken(token)
    THEN /\ resp' = ValidationError("RefreshToken", token, NoCtx)
         /\ UNCHANGED <<users, nextId, now, tokens>>
    ELSE IF ~claims.ok
    THEN /\ resp' = Response("RefreshToken", token, StatusUnauthorized,
                             ErrorBody("Invalid or expired refresh token"), NoCtx, TRUE)
         /\ UNCHANGED <<users, nextId, now, tokens>>
    ELSE IF ~UserFound(claims.UserID)
    THEN /\ resp' = Response("RefreshToken", token, StatusUnauthorized,
                             ErrorBody("User not found"), NoCtx, TRUE)
         /\ UNCHANGED <<users, nextId, now, tokens>>
    ELSE IF ~users[claims.UserID].Active
    THEN /\ resp' = Response("RefreshToken", token, StatusUnauthorized,
                             ErrorBody("User account is inactive"), NoCtx, TRUE)
         /\ UNCHANGED <<users, nextId, now, tokens>>
    ELSE LET user == users[claims.UserID]
             accessToken == GenerateToken(user.ID, user.Email)
             newRefreshToken == GenerateRefreshToken(user.ID, user.Email)
         IN  /\ Cardinality(Issue(accessToken, newRefreshToken, user.Role)) <= MaxTokens
             /\ tokens' = Issue(accessToken, newRefreshToken, user.Role)
             /\ resp' = Response("RefreshToken", token, StatusOK,
                                 TokenResponse(accessToken, newRefreshToken), NoCtx, TRUE)
             /\ UNCHANGED <<users, nextId, now>>

----------------------------------------------------------------------------
(* Protected routes: AuthMiddleware, then the handler *)

GetCurrentUser(authHeader) ==
    LET mw == ProtectedChain(authHeader) IN
    /\ resp' =
         IF mw.status # 0
         THEN Aborted("GetCurrentUser", authHeader, mw)
         ELSE Response("GetCurrentUser", authHeader, StatusOK,
                       newUserResponse(users[mw.ctx.user_id]), mw.ctx, TRUE)
    /\ UNCHANGED <<users, nextId, now, tokens>>

\* mutant: the names of the request are stored even when empty
UpdateCurrentUserOverwrites(authHeader, first, last) ==
    LET mw == ProtectedChain(authHeader) IN
    IF mw.status # 0
    THEN /\ resp' = Aborted("UpdateCurrentUser", authHeader, mw)
         /\ UNCHANGED <<users, nextId, now, tokens>>
    ELSE LET user == users[mw.ctx.user_id]
             user2 == [user EXCEPT !.FirstName = first, !.LastName = last]
         IN  /\ users' = Save(user2)
             /\ resp' = Response("UpdateCurrentUser", authHeader, StatusOK,
                                 newUserResponse(Saved(user2)), mw.ctx, TRUE)
             /\ UNCHANGED <<nextId, now, tokens>>

UpdateCurrentUser(authHeader, first, last) ==
    LET mw == ProtectedChain(authHeader) IN
    IF mw.status # 0
    THEN /\ resp' = Aborted("UpdateCurrentUser", authHeader, mw)
         /\ UNCHANGED <<users, nextId, now, tokens>>
    ELSE LET user == users[mw.ctx.user_id]
             user1 == IF first # "" THEN [user EXCEPT !.FirstName = first] ELSE user
             user2 == IF last # "" THEN [user1 EXCEPT !.LastName = last] ELSE user1
         IN  /\ users' = Save(user2)
             /\ resp' = Response("UpdateCurrentUser", authHeader, StatusOK,
                                 newUserResponse(Saved(user2)), mw.ctx, TRUE)
             /\ UNCHANGED <<nextId, now, tokens>>

\* mutant: the new password is set on the row read but the row is not saved
ChangePasswordNotSaved(authHeader, old, new) ==
    LET mw == ProtectedChain(authHeader) IN
    /\ resp' =
         IF mw.status # 0
         THEN Aborted("ChangePassword", authHeader, mw)
         ELSE IF ~BindChangePassword(old, new)
         THEN ValidationError("ChangePassword", authHeader, mw.ctx)
         ELSE IF ~CheckPassword(users[mw.ctx.user_id], old)
         THEN Response("ChangePassword", authHeader, StatusUnauthorized,
                       ErrorBody("Invalid old password"), mw.ctx, TRUE)
         ELSE Response("ChangePassword", authHeader, StatusOK,
                       [kind |-> "message",
                        message |-> "Password changed successfully"],
                       mw.ctx, TRUE)
    /\ UNCHANGED <<users, nextId, now, tokens>>

\* mutant: the old password is not verified
ChangePasswordNoCheck(authHeader, old, new) ==
    LET mw == ProtectedChain(authHeader) IN
    IF mw.status # 0
    THEN /\ resp' = Aborted("ChangePassword", authHeader, mw)
         /\ UNCHANGED <<users, nextId, now, tokens>>
    ELSE IF ~BindChangePassword(old, new)
    THEN /\ resp' = ValidationError("ChangePassword", authHeader, mw.ctx)
         /\ UNCHANGED <<users, nextId, now, tokens>>
    ELSE LET user == users[mw.ctx.user_id] IN
         /\ users' = Save(SetPassword(user, new))
         /\ resp' = Response("ChangePassword", authHeader, StatusOK,
                             [kind |-> "message",
                              message |-> "Password changed successfully"],
                             mw.ctx, TRUE)
         /\ UNCHANGED <<nextId, now, tokens>>

ChangePassword(authHeader, old, new) ==
    LET mw == ProtectedChain(authHeader) IN
    IF mw.status # 0
    THEN /\ resp' = Aborted("ChangePassword", authHeader, mw)
         /\ UNCHANGED <<users, nextId, now, tokens>>
    ELSE IF ~BindChangePassword(old, new)
    THEN /\ resp' = ValidationError("ChangePassword", authHeader, mw.ctx)
         /\ UNCHANGED <<users, nextId, now, tokens>>
    ELSE LET user == users[mw.ctx.user_id] IN
         IF ~CheckPassword(user, old)
         THEN /\ resp' = Response("ChangePassword", authHeader, StatusUnauthorized,
                                  ErrorBody("Invalid old password"), mw.ctx, TRUE)
              /\ UNCHANGED <<users, nextId, now, tokens>>
         ELSE /\ users' = Save(SetPassword(user, new))
              /\ resp' = Response("ChangePassword", authHeader, StatusOK,
                                  [kind |-> "message",
                                   message |-> "Password changed successfully"],
                                  mw.ctx, TRUE)
              /\ UNCHANGED <<nextId, now, tokens>>

----------------------------------------------------------------------------
(* Admin routes: AuthMiddleware, RequireAdmin, then the handler *)

UsersList(authHeader) ==
    LET mw == AdminChain(authHeader) IN
    /\ resp' =
         IF mw.status # 0
         THEN Aborted("UsersList", authHeader, mw)
         ELSE Response("UsersList", authHeader, StatusOK,
                       [kind |-> "list", total |-> Cardinality(DOMAIN users)], mw.ctx, TRUE)
    /\ UNCHANGED <<users, nextId, now, tokens>>

UsersShow(authHeader, userID) ==
    LET mw == AdminChain(authHeader) IN
    /\ resp' =
         IF mw.status # 0
         THEN Aborted("UsersShow", authHeader, mw)
         ELSE IF ~UserFound(userID)
         THEN Response("UsersShow", authHeader, StatusNotFound,
                       ErrorBody("record not found"), mw.ctx, TRUE)
         ELSE Response("UsersShow", authHeader, StatusOK,
                       newUserResponse(users[userID]), mw.ctx, TRUE)
    /\ UNCHANGED <<users, nextId, now, tokens>>

AdminCreateUser(authHeader, email, password, first, last, role, active) ==
    LET mw == AdminChain(authHeader) IN
    IF mw.status # 0
    THEN /\ resp' = Aborted("AdminCreateUser", authHeader, mw)
         /\ UNCHANGED <<users, nextId, now, tokens>>
    ELSE IF ~BindAdminCreate(email, password, role)
    THEN /\ resp' = FieldError("AdminCreateUser", authHeader, mw.ctx,
                               AdminCreateField(email, password, role))
         /\ UNCHANGED <<users, nextId, now, tokens>>
    ELSE IF UserExists(email)
    THEN /\ resp' = Response("AdminCreateUser", authHeader, StatusConflict,
                             ErrorBody("User with this email already exists"), mw.ctx, TRUE)
         /\ UNCHANGED <<users, nextId, now, tokens>>
    ELSE LET user == SetPassword([ID |-> 0, CreatedAt |-> 0, UpdatedAt |-> 0, Email |-> email, PasswordHash |-> <<>>,
                                  FirstName |-> first, LastName |-> last,
                                  Role |-> role, Active |-> active], password)
         IN  /\ nextId <= MaxUsers
             /\ users' = Create(user)
             /\ nextId' = nextId + 1
             /\ resp' = Response("AdminCreateUser", authHeader, StatusCreated,
                                 newUserResponse(NewRow(user)), mw.ctx, TRUE)
             /\ UNCHANGED <<now, tokens>>

\* mutant: an absent active flag is read as false
UsersUpdateActiveRequired(authHeader, userID, first, last, active) ==
    LET mw == AdminChain(authHeader) IN
    IF mw.status # 0
    THEN /\ resp' = Aborted("UsersUpdate", authHeader, mw)
         /\ UNCHANGED <<users, nextId, now, tokens>>
    ELSE IF ~UserFound(userID)
    THEN /\ resp' = Response("UsersUpdate", authHeader, StatusNotFound,
                             ErrorBody("record not found"), mw.ctx, TRUE)
         /\ UNCHANGED <<users, nextId, now, tokens>>
    ELSE LET user == users[userID]
             user1 == IF first # <<>> THEN [user EXCEPT !.FirstName = first[1]] ELSE user
             user2 == IF last # <<>> THEN [user1 EXCEPT !.LastName = last[1]] ELSE user1
             user3 == [user2 EXCEPT !.Active = IF active # <<>> THEN active[1] ELSE FALSE]
         IN  /\ users' = Save(user3)
             /\ resp' = Response("UsersUpdate", authHeader, StatusOK,
                                 newUserResponse(Saved(user3)), mw.ctx, TRUE)
             /\ UNCHANGED <<nextId, now, tokens>>

UsersUpdate(authHeader, userID, first, last, active) ==
    LET mw == AdminChain(authHeader) IN
    IF mw.status # 0
    THEN /\ resp' = Aborted("UsersUpdate", authHeader, mw)
         /\ UNCHANGED <<users, nextId, now, tokens>>
    ELSE IF ~UserFound(userID)
    THEN /\ resp' = Response("UsersUpdate", authHeader, StatusNotFound,
                             ErrorBody("record not found"), mw.ctx, TRUE)
         /\ UNCHANGED <<users, nextId, now, tokens>>
    ELSE LET user == users[userID]
             user1 == IF first # <<>> THEN [user EXCEPT !.FirstName = first[1]] ELSE user
             user2 == IF last # <<>> THEN [user1 EXCEPT !.LastName = last[1]] ELSE user1
             user3 == IF active # <<>> THEN [user2 EXCEPT !.Active = active[1]] ELSE user2
         IN  /\ users' = Save(user3)
             /\ resp' = Response("UsersUpdate", authHeader, StatusOK,
                                 newUserResponse(Saved(user3)), mw.ctx, TRUE)
             /\ UNCHANGED <<nextId, now, tokens>>

\* mutant: the row is deleted by id without being read first
UsersDeleteNoLookup(authHeader, userID) ==
    LET mw == AdminChain(authHeader) IN
    IF mw.status # 0
    THEN /\ resp' = Aborted("UsersDelete", authHeader, mw)
         /\ UNCHANGED <<users, nextId, now, tokens>>
    ELSE /\ users' = [id \in DOMAIN users \ {userID} |-> users[id]]
         /\ resp' = Response("UsersDelete", authHeader, StatusNoContent, NoBody, mw.ctx, TRUE)
         /\ UNCHANGED <<nextId, now, tokens>>
\* mutant: an admin may not delete the account the request is made with
UsersDeleteNotSelf(authHeader, userID) ==
    LET mw == AdminChain(authHeader) IN
    IF mw.status # 0
    THEN /\ resp' = Aborted("UsersDelete", authHeader, mw)
         /\ UNCHANGED <<users, nextId, now, tokens>>
    ELSE IF ~UserFound(userID)
    THEN /\ resp' = Response("UsersDelete", authHeader, StatusNotFound,
                             ErrorBody("record not found"), mw.ctx, TRUE)
         /\ UNCHANGED <<users, nextId, now, tokens>>
    ELSE IF userID = mw.ctx.user_id
    THEN /\ resp' = Response("UsersDelete", authHeader, StatusForbidden,
                             ErrorBody("Insufficient permissions"), mw.ctx, TRUE)
         /\ UNCHANGED <<users, nextId, now, tokens>>
    ELSE /\ users' = Delete(users[userID])
         /\ resp' = Response("UsersDelete", authHeader, StatusNoContent, NoBody, mw.ctx, TRUE)
         /\ UNCHANGED <<nextId, now, tokens>>


UsersDelete(authHeader, userID) ==
    LET mw == AdminChain(authHeader) IN
    IF mw.status # 0
    THEN /\ resp' = Aborted("UsersDelete", authHeader, mw)
         /\ UNCHANGED <<users, nextId, now, tokens>>
    ELSE IF ~UserFound(userID)
    THEN /\ resp' = Response("UsersDelete", authHeader, StatusNotFound,
                             ErrorBody("record not found"), mw.ctx, TRUE)
         /\ UNCHANGED <<users, nextId, now, tokens>>
    ELSE /\ users' = Delete(users[userID])
         /\ resp' = Response("UsersDelete", authHeader, StatusNoContent, NoBody, mw.ctx, TRUE)
         /\ UNCHANGED <<nextId, now, tokens>>

----------------------------------------------------------------------------
(* The clock *)

Tick ==
    /\ now < MaxTime
    /\ now' = now + 1
    /\ UNCHANGED <<users, nextId, tokens, resp>>

----------------------------------------------------------------------------
(* The store after the migrations and the admin fixture; no request yet *)

AdminFixture ==
    [ID |-> 1, CreatedAt |-> 0, UpdatedAt |-> 0, Email |-> AdminEmail,
     PasswordHash |-> Hash("admin123"),
     FirstName |-> "", LastName |-> "", Role |-> RoleAdmin, Active |-> TRUE]

Init ==
    /\ users = [id \in {1} |-> AdminFixture]
    /\ nextId = 2
    /\ now = 0
    /\ tokens = {}
    /\ resp = Response("none", <<>>, 0, NoBody, NoCtx, FALSE)

\* Request bodies.  A request a middleware aborts is tried with the probe bodies.
ValidPassword == "password123"

CreateBodies ==
    [email : Emails, password : {ValidPassword}, role : Roles, active : BOOLEAN]
        \cup [email : {"customer@example.com"}, password : {ShortPassword},
              role : {RoleEmployee}, active : {TRUE}]
        \cup [email : {"customer@example.com"}, password : {ValidPassword},
              role : {"superuser", ""}, active : {TRUE}]

CreateProbes ==
    [email : Emails, password : {ValidPassword, ShortPassword}, role : {RoleEmployee},
     active : {TRUE}]

UpdateBodies == [first : {<<>>}, last : {<<>>}, active : Opt(BOOLEAN)]

UpdateProbes == [first : {<<>>}, last : {<<>>}, active : {<<FALSE>>}]

PasswordBodies == [old : Passwords, new : Passwords \cup {ShortPassword}]

PasswordProbes == [old : {ValidPassword}, new : {ValidPassword, ShortPassword}]

Passes(mw) == mw.status = 0

Next ==
    \/ Tick
    \/ \E e \in Emails, p \in {ValidPassword, ShortPassword} : RegisterUser(e, p, "", "")
    \/ \E e \in Emails, p \in Passwords : Login(e, p)
    \/ \E t \in TokenStrings \cup {EmptyToken} : VerifyToken(t)
    \/ \E t \in TokenStrings \cup {EmptyToken} : RefreshToken(t)
    \/ \E h \in Headers : GetCurrentUser(h)
    \/ \E h \in ClientHeaders : UpdateCurrentUser(h, "", "")
    \/ \E h \in ClientHeaders :
           \E b \in IF Passes(ProtectedChain(h)) THEN PasswordBodies ELSE PasswordProbes :
               ChangePassword(h, b.old, b.new)
    \/ \E h \in Headers : UsersList(h)
    \/ \E h \in ClientHeaders, id \in Ids : UsersShow(h, id)
    \/ \E h \in ClientHeaders :
           \E b \in IF Passes(AdminChain(h)) THEN CreateBodies ELSE CreateProbes :
               AdminCreateUser(h, b.email, b.password, "", "", b.role, b.active)
    \/ \E h \in ClientHeaders, id \in Ids :
           \E b \in IF Passes(AdminChain(h)) THEN UpdateBodies ELSE UpdateProbes :
               UsersUpdate(h, id, b.first, b.last, b.active)
    \/ \E h \in ClientHeaders, id \in Ids : UsersDelete(h, id)

Spec == Init /\ [][Next]_vars

----------------------------------------------------------------------------
(* The admin group while roles change in the store.  The API has no       *)
(* operation that changes the role of a stored user: the role column is   *)
(* written directly in the store.                                          *)

StoreSetRole(id, role) ==
    /\ id \in DOMAIN users
    /\ users[id].Role # role
    /\ users' = [users EXCEPT ![id].Role = role]
    /\ UNCHANGED <<nextId, now, tokens, resp>>

NextRoleChange ==
    \/ Tick
    \/ \E id \in Ids, r \in Roles : StoreSetRole(id, r)
    \/ \E e \in Emails : RegisterUser(e, ValidPassword, "", "")
    \/ \E e \in Emails : Login(e, IF e = AdminEmail THEN "admin123" ELSE ValidPassword)
    \/ \E h \in ClientHeaders : UsersList(h)
    \/ \E h \in ClientHeaders, id \in Ids : UsersUpdate(h, id, <<>>, <<>>, <<FALSE>>)
    \/ \E h \in ClientHeaders, id \in Ids : UsersDelete(h, id)

SpecRoleChange == Init /\ [][NextRoleChange]_vars

----------------------------------------------------------------------------
(* RequireRole on its own: a route whose chain is RequireRole(roles...)    *)
(* and a handler, entered with any request context.                        *)

MaxRoles == 3

RoleSeqs == UNION {[1 .. n -> Roles] : n \in 0 .. MaxRoles}

Contexts ==
    {NoCtx, [user_id |-> 1, user_email |-> AdminEmail]}
        \cup {[user_id |-> 1, user_email |-> AdminEmail, user_role |-> r] : r \in Roles}

GateResponse(op, roles, rr, ctx) ==
    [op |-> op, cred |-> <<>>, status |-> IF rr.status = 0 THEN StatusOK ELSE rr.status,
     body |-> IF rr.status = 0 THEN NoBody ELSE ErrorBody(rr.error), ctx |-> ctx,
     handler |-> rr.status = 0, roles |-> roles]

RoleGate(ctx, roles) ==
    /\ resp' = GateResponse("RequireRole", roles, RequireRole(ctx, roles), ctx)
    /\ UNCHANGED <<users, nextId, now, tokens>>

AdminGate(ctx) ==
    /\ resp' = GateResponse("RequireAdmin", <<RoleAdmin>>, RequireAdmin(ctx), ctx)
    /\ UNCHANGED <<users, nextId, now, tokens>>

NextRole ==
    \/ \E ctx \in Contexts, roles \in RoleSeqs : RoleGate(ctx, roles)
    \/ \E ctx \in Contexts : AdminGate(ctx)

SpecRole == Init /\ [][NextRole]_vars

----------------------------------------------------------------------------
(* The token engine over the whole life of a refresh token: the admin      *)
(* logs in and the tokens handed out are presented, as issued, tampered    *)
(* with or signed with another secret, while the clock runs past the       *)
(* expiry of both kinds of token.                                          *)

MaxClock == 8

Advance ==
    /\ now < MaxClock
    /\ now' = now + 1
    /\ UNCHANGED <<users, nextId, tokens, resp>>

ForeignTokens ==
    {Forge(s) : s \in Issued} \cup {TamperAt(s, k) : s \in Issued, k \in 1 .. 4}

NextToken ==
    \/ Advance
    \/ Login(AdminEmail, "admin123")
    \/ \E t \in TokenStrings \cup ForeignTokens \cup {EmptyToken} : VerifyToken(t)
    \/ \E t \in TokenStrings \cup ForeignTokens \cup {EmptyToken} : RefreshToken(t)
    \/ \E h \in Headers \cup {bearerPrefix \o s : s \in ForeignTokens} : GetCurrentUser(h)

SpecToken == Init /\ [][NextToken]_vars

----------------------------------------------------------------------------
(* Verify while the profile of the token's subject changes: the admin      *)
(* renames themself, and the role column is written in the store.          *)

Names == {"", "Ana", "Novak"}

NextProfile ==
    \/ Tick
    \/ \E r \in Roles : StoreSetRole(1, r)
    \/ Login(AdminEmail, "admin123")
    \/ \E h \in ClientHeaders, first \in Names, last \in Names :
           UpdateCurrentUser(h, first, last)
    \/ \E t \in TokenStrings \cup {EmptyToken} : VerifyToken(t)

SpecProfile == Init /\ [][NextProfile]_vars

----------------------------------------------------------------------------
(* Vocabulary of the properties *)

ProtectedOps == {"GetCurrentUser", "UpdateCurrentUser", "ChangePassword"}
AdminOps == {"UsersList", "UsersShow", "AdminCreateUser", "UsersUpdate", "UsersDelete"}
ChainOps == ProtectedOps \cup AdminOps

\* a step of the clock or of the store, not of a route
EnvStep == now' # now \/ (resp' = resp /\ \E id \in Ids, r \in Roles : StoreSetRole(id, r))

\* this step is a request to one of the routes ops
Request(ops) == resp'.op \in ops /\ ~EnvStep

Subject(s) == s[5]
Expiry(s) == s[7]

\* the token string s follows the scheme part of header h
Carries(h, s) ==
    /\ Len(h) = Len(bearerPrefix) + Len(s)
    /\ SubSeq(h, Len(bearerPrefix) + 1, Len(h)) = s

\* h carries the issued, unexpired token string s
HoldsToken(h, s) == s \in Issued /\ Carries(h, s) /\ now < Expiry(s)

HasBearerPrefix(h) ==
    Len(h) >= Len(bearerPrefix) /\ SubSeq(h, 1, Len(bearerPrefix)) = bearerPrefix

Rejected401(r) == r.status = StatusUnauthorized /\ ~r.handler /\ r.ctx = NoCtx

StoreUnchanged == users' = users /\ nextId' = nextId

----------------------------------------------------------------------------
\* C1: a request through AuthMiddleware that carries an issued, unexpired token
\* whose subject is stored with active = false is answered 401, the handler
\* does not run, and no token is issued or revoked.
DeactivationTakesEffect ==
    [][Request(ChainOps) =>
          \A s \in Issued :
              (/\ HoldsToken(resp'.cred, s)
               /\ Subject(s) \in DOMAIN users
               /\ ~users[Subject(s)].Active)
              => (Rejected401(resp') /\ tokens' = tokens /\ StoreUnchanged)]_vars

DeactivationWitness ==
    /\ resp.op \in ChainOps
    /\ Rejected401(resp)
    /\ \E s \in Issued :
          /\ HoldsToken(resp.cred, s)
          /\ Subject(s) \in DOMAIN users
          /\ ~users[Subject(s)].Active

----------------------------------------------------------------------------
\* C2: on the admin routes, a request with an issued, unexpired token of a
\* stored, active subject runs the handler exactly when the subject's role in
\* the store at this request is admin, and is answered 403 exactly when it is
\* not, whatever the role was when the token was issued.
RoleReadAtRequest ==
    [][Request(AdminOps) =>
          \A s \in Issued :
              (/\ HoldsToken(resp'.cred, s)
               /\ Subject(s) \in DOMAIN users
               /\ users[Subject(s)].Active)
              => /\ resp'.handler <=> users[Subject(s)].Role = RoleAdmin
                 /\ resp'.status = StatusForbidden <=> users[Subject(s)].Role # RoleAdmin
                 /\ resp'.ctx.user_role = users[Subject(s)].Role]_vars

\* a token issued to a customer or employee has passed the admin gate, and the
\* subject is stored as admin now
RoleChangeWitness ==
    /\ resp.op \in AdminOps
    /\ resp.handler
    /\ \E t \in tokens :
          /\ resp.cred = bearerPrefix \o t.access
          /\ \A t2 \in tokens : t2.access = t.access => t2.role # RoleAdmin
          /\ Subject(t.access) \in DOMAIN users
          /\ users[Subject(t.access)].Role = RoleAdmin

----------------------------------------------------------------------------
\* C3: Login, Refresh and AuthMiddleware succeed only for a subject that the
\* store holds with active = true when the request reads it: a 200 of Login or
\* Refresh carries tokens of an active user, and an identity is published only
\* for an active user.
OnlyActiveAuthenticate ==
    [][Request(ChainOps \cup {"Login", "RefreshToken"}) =>
          /\ (resp'.op \in {"Login", "RefreshToken"} /\ resp'.status = StatusOK)
                => /\ Subject(resp'.body.access_token) \in DOMAIN users
                   /\ users[Subject(resp'.body.access_token)].Active
          /\ (resp'.op = "RefreshToken" /\ resp'.status = StatusOK)
                => Subject(resp'.body.access_token) = Subject(resp'.cred)
          /\ (resp'.op \in ChainOps /\ (resp'.ctx # NoCtx \/ resp'.handler))
                => /\ resp'.ctx # NoCtx
                   /\ resp'.ctx.user_id \in DOMAIN users
                   /\ users[resp'.ctx.user_id].Active
          /\ resp'.status # StatusOK => tokens' = tokens]_vars

\* an unexpired refresh token of an inactive user was refused at the refresh route
InactiveRefreshWitness ==
    /\ resp.op = "RefreshToken"
    /\ resp.status = StatusUnauthorized
    /\ resp.cred \in Issued
    /\ now < Expiry(resp.cred)
    /\ Subject(resp.cred) \in DOMAIN users
    /\ ~users[Subject(resp.cred)].Active

----------------------------------------------------------------------------
\* C4: an admin-route handler runs only for an issued, unexpired token whose
\* subject is stored, active and admin now; an authenticated non-admin gets 403,
\* a request with no such token gets 401, and both leave the store unchanged.
Authenticates(h) ==
    \E s \in Issued :
        /\ HoldsToken(h, s)
        /\ Subject(s) \in DOMAIN users
        /\ users[Subject(s)].Active

IsAdminRequest(h) ==
    \E s \in Issued :
        /\ HoldsToken(h, s)
        /\ Subject(s) \in DOMAIN users
        /\ users[Subject(s)].Active
        /\ users[Subject(s)].Role = RoleAdmin

AdminOnly ==
    [][Request(AdminOps) =>
          /\ resp'.handler => IsAdminRequest(resp'.cred)
          /\ (Authenticates(resp'.cred) /\ ~IsAdminRequest(resp'.cred))
                => (resp'.status = StatusForbidden /\ ~resp'.handler /\ StoreUnchanged)
          /\ ~Authenticates(resp'.cred)
                => (resp'.status = StatusUnauthorized /\ ~resp'.handler /\ StoreUnchanged)]_vars

\* a customer's valid token was refused with 403 at the delete route
ForbiddenWitness ==
    /\ resp.op = "UsersDelete"
    /\ resp.status = StatusForbidden
    /\ ~resp.handler
    /\ Authenticates(resp.cred)
    /\ resp.ctx.user_role = RoleCustomer

----------------------------------------------------------------------------
\* C5: a request through AuthMiddleware whose Authorization header does not
\* begin with "Bearer " is answered 401 and its handler does not run.
BearerPrefixRequired ==
    [][(Request(ChainOps) /\ ~HasBearerPrefix(resp'.cred))
          => (resp'.status = StatusUnauthorized /\ ~resp'.handler)]_vars

----------------------------------------------------------------------------
\* C6: RequireRole with no role in the request context answers 403 and the
\* handler does not run, for every sequence of allowed roles.
FailsClosed ==
    (resp.op \in {"RequireRole", "RequireAdmin"} /\ "user_role" \notin DOMAIN resp.ctx)
        => (resp.status = StatusForbidden /\ ~resp.handler)

\* a gate that allows every role refused a context with an identity but no role
FailsClosedWitness ==
    /\ resp.op = "RequireRole"
    /\ DOMAIN resp.ctx = {"user_id", "user_email"}
    /\ {resp.roles[i] : i \in 1 .. Len(resp.roles)} = Roles
    /\ resp.status = StatusForbidden

----------------------------------------------------------------------------
\* C7: RequireRole lets a request through exactly when the published role is
\* one of the allowed roles, and otherwise answers 403; RequireAdmin lets
\* through exactly the role admin.
MembershipOnly ==
    (resp.op \in {"RequireRole", "RequireAdmin"} /\ "user_role" \in DOMAIN resp.ctx)
        => /\ resp.handler <=> \E i \in 1 .. Len(resp.roles) : resp.roles[i] = resp.ctx.user_role
           /\ ~resp.handler => resp.status = StatusForbidden
           /\ resp.op = "RequireAdmin" => (resp.handler <=> resp.ctx.user_role = RoleAdmin)

\* an admin was refused at a gate that lists only employee
NoHierarchyWitness ==
    /\ resp.op = "RequireRole"
    /\ resp.roles = <<RoleEmployee>>
    /\ "user_role" \in DOMAIN resp.ctx
    /\ resp.ctx.user_role = RoleAdmin
    /\ resp.status = StatusForbidden
    /\ ~resp.handler

----------------------------------------------------------------------------
\* C8: in every state, Login with an e-mail address no user has and Login with
\* the address of an active user and a password that is not theirs get the same
\* response, status 401 with the same body.
UnknownEmail(e) == \A id \in DOMAIN users : users[id].Email # e

WrongPassword(e, p) ==
    \E id \in DOMAIN users :
        users[id].Email = e /\ users[id].Active /\ users[id].PasswordHash # Hash(p)

LoginInputs == Passwords \cup {ShortPassword}

LoginIndistinguishable ==
    \A e1 \in Emails, e2 \in Emails, p1 \in LoginInputs, p2 \in LoginInputs :
        (UnknownEmail(e1) /\ WrongPassword(e2, p2))
            => /\ LoginReply(e1, p1) = LoginReply(e2, p2)
               /\ LoginReply(e1, p1).status = StatusUnauthorized

\* Login was refused with the generic answer while one address is unknown and
\* the other belongs to an active user
LoginIndistinguishableWitness ==
    /\ resp.op = "Login"
    /\ resp.status = StatusUnauthorized
    /\ resp.body = ErrorBody("invalid credentials")
    /\ \E e1 \in Emails, e2 \in Emails, p \in LoginInputs :
          UnknownEmail(e1) /\ WrongPassword(e2, p)

----------------------------------------------------------------------------
\* C9: for a stored user with active = false, ValidateCredentials answers
\* "user account is inactive" for every password, the right one included.
InactiveBeforePassword ==
    \A id \in DOMAIN users, p \in LoginInputs :
        ~users[id].Active
            => ValidateCredentials(users[id].Email, p) =
                   [ok |-> FALSE, err |-> "user account is inactive", id |-> 0]

\* Login of an inactive user was refused as inactive
InactiveLoginWitness ==
    /\ resp.op = "Login"
    /\ resp.status = StatusUnauthorized
    /\ resp.body = ErrorBody("user account is inactive")
    /\ \E id \in DOMAIN users, p \in Passwords :
          ~users[id].Active /\ CheckPassword(users[id], p)

----------------------------------------------------------------------------
\* C10: when RegisterUser(email, password) answers 201, Login with the same
\* e-mail address and password answers 200 with tokens of that user, and goes on
\* doing so over every step that leaves the user stored, active and with the
\* same password; Login with any other password is refused.
LoginSucceeds(e, p) ==
    \E r \in {LoginReply(e, p)} :
        /\ r.status = StatusOK
        /\ \E claims \in {ValidateToken(r.body.access_token)} :
              claims.ok /\ claims.Email = e /\ claims.UserID = GetUserByEmail(e)
        /\ Subject(r.body.refresh_token) = GetUserByEmail(e)

OthersRefused(e, p) ==
    \A q \in LoginInputs \ {p} : LoginReply(e, q).status # StatusOK

\* the step leaves the user of address e stored, active, with the same password
\* (the response of Login is a function of users and now alone, so a step that
\* changes neither keeps it)
Kept(e) ==
    \E id \in DOMAIN users \cap DOMAIN users' :
        /\ users[id].Email = e
        /\ users'[id].Email = e
        /\ users'[id].Active
        /\ users'[id].PasswordHash = users[id].PasswordHash

RegisteredCanLogin ==
    [][\A e \in Emails, p \in Passwords :
          /\ (/\ resp'.op = "RegisterUser"
              /\ resp'.status = StatusCreated
              /\ RegisterUser(e, p, "", ""))
                => (LoginSucceeds(e, p) /\ OthersRefused(e, p))'
          /\ (/\ <<users, now>>' # <<users, now>>
              /\ Kept(e)
              /\ LoginSucceeds(e, p)
              /\ OthersRefused(e, p))
                => (LoginSucceeds(e, p) /\ OthersRefused(e, p))']_vars

\* a registration has just been answered 201 and its credentials log in
RegisteredWitness ==
    /\ resp.op = "RegisterUser"
    /\ resp.status = StatusCreated
    /\ LoginSucceeds(resp.body.email, ValidPassword)
    /\ OthersRefused(resp.body.email, ValidPassword)

----------------------------------------------------------------------------
\* C11: a step of Register adds at most a user with role customer and
\* active = true, changes no stored user, and a 201 answer shows that user.
NewUsers == DOMAIN users' \ DOMAIN users

OthersKept == \A id \in DOMAIN users : id \in DOMAIN users' /\ users'[id] = users[id]

SelfRegistrationIsCustomer ==
    [][Request({"RegisterUser"})
          => /\ \A id \in NewUsers : users'[id].Role = RoleCustomer /\ users'[id].Active
             /\ OthersKept
             /\ resp'.status = StatusCreated
                   => /\ NewUsers = {resp'.body.id}
                      /\ resp'.body.role = RoleCustomer
                      /\ resp'.body.active]_vars

\* a registration was answered 201 and its user is stored as an active customer
SelfRegistrationWitness ==
    /\ resp.op = "RegisterUser"
    /\ resp.status = StatusCreated
    /\ resp.body.id \in DOMAIN users
    /\ users[resp.body.id].Role = RoleCustomer
    /\ users[resp.body.id].Active
    /\ users[resp.body.id].Email # AdminEmail

----------------------------------------------------------------------------
\* C12: no two stored users have the same e-mail address; Register and
\* AdminCreateUser with an address a stored user has answer 409, and a 409
\* leaves the users table as it was.
UniqueEmails ==
    \A i \in DOMAIN users, j \in DOMAIN users : users[i].Email = users[j].Email => i = j

NoDuplicateEmail ==
    [][/\ UniqueEmails /\ UniqueEmails'
       /\ \A e \in Emails :
             (/\ resp'.op = "RegisterUser"
              /\ ~UnknownEmail(e)
              /\ RegisterUser(e, ValidPassword, "", ""))
                => (resp'.status = StatusConflict /\ StoreUnchanged)
       /\ \A h \in ClientHeaders \cap {resp'.cred}, b \in CreateBodies :
             (/\ resp'.op = "AdminCreateUser"
              /\ Passes(AdminChain(h))
              /\ BindAdminCreate(b.email, b.password, b.role)
              /\ ~UnknownEmail(b.email)
              /\ AdminCreateUser(h, b.email, b.password, "", "", b.role, b.active))
                => (resp'.status = StatusConflict /\ StoreUnchanged)
       /\ (Request({"RegisterUser", "AdminCreateUser"}) /\ resp'.status = StatusConflict)
             => StoreUnchanged]_vars

\* an admin's creation request was answered 409 while every address is taken
DuplicateWitness ==
    /\ resp.op = "AdminCreateUser"
    /\ resp.status = StatusConflict
    /\ \A e \in Emails : ~UnknownEmail(e)
    /\ UniqueEmails

----------------------------------------------------------------------------
\* C13: every stored user's role is customer, employee or admin; a creation
\* request with another role value is not answered 201 and leaves the users
\* table as it was.
StoredRolesValid == \A id \in DOMAIN users : users[id].Role \in {"customer", "employee", "admin"}

RolesEnumerated ==
    [][/\ StoredRolesValid /\ StoredRolesValid'
       /\ \A h \in ClientHeaders \cap {resp'.cred}, b \in CreateBodies \cup CreateProbes :
             (/\ resp'.op = "AdminCreateUser"
              /\ b.role \notin {"customer", "employee", "admin"}
              /\ AdminCreateUser(h, b.email, b.password, "", "", b.role, b.active))
                => (resp'.status # StatusCreated /\ StoreUnchanged)]_vars

\* an admin's creation request was refused on its role
InvalidRoleWitness ==
    /\ resp.op = "AdminCreateUser"
    /\ resp.status = StatusBadRequest
    /\ "field" \in DOMAIN resp.body
    /\ resp.body.field = "Role"
    /\ StoredRolesValid

----------------------------------------------------------------------------
\* C14: for every id and e-mail address, the token GenerateToken or
\* GenerateRefreshToken made at any time up to now, validated strictly before
\* its expiry, yields claims with that id and that address.
RoundTrip ==
    \A id \in Ids, e \in Emails, t \in 0 .. now :
        /\ now < t + AccessTTL
              => ValidateToken(GenerateTokenAt(id, e, t)) =
                     [ok |-> TRUE, UserID |-> id, Email |-> e]
        /\ now < t + RefreshTTL
              => ValidateToken(GenerateRefreshTokenAt(id, e, t)) =
                     [ok |-> TRUE, UserID |-> id, Email |-> e]

\* Verify accepted a token issued at an earlier time and answered with its subject
RoundTripWitness ==
    /\ resp.op = "VerifyToken"
    /\ resp.status = StatusOK
    /\ \E t \in 0 .. now - 1 :
          resp.cred = GenerateRefreshTokenAt(resp.body.id, resp.body.email, t)

----------------------------------------------------------------------------
\* C15: an access token expires 24 hours and a refresh token 7 days after it
\* was issued; an issued token presented after its expiry is refused by
\* ValidateToken, and Verify, Refresh and AuthMiddleware answer it with 401,
\* although its signature is right and its subject is active.
TokenRoutes == {"VerifyToken", "RefreshToken"}

Expired(s) == now > Expiry(s)

ExpiryEnforced ==
    [][/\ \A s \in Issued : Expired(s) => ~ValidateToken(s).ok
       /\ (Request({"Login", "RefreshToken"}) /\ resp'.status = StatusOK)
             => /\ Expiry(resp'.body.access_token) = now + AccessTTL
                /\ Expiry(resp'.body.refresh_token) = now + RefreshTTL
       /\ (Request(TokenRoutes) /\ resp'.cred \in Issued /\ Expired(resp'.cred))
             => (resp'.status = StatusUnauthorized /\ tokens' = tokens)
       /\ Request(ChainOps)
             => \A s \in Issued :
                   (Carries(resp'.cred, s) /\ Expired(s)) => Rejected401(resp')]_vars

\* Refresh refused an issued refresh token of an active user after its expiry
ExpiredRefreshWitness ==
    /\ resp.op = "RefreshToken"
    /\ resp.status = StatusUnauthorized
    /\ \E t \in tokens :
          /\ resp.cred = t.refresh
          /\ Expired(t.refresh)
          /\ Subject(t.refresh) \in DOMAIN users
          /\ users[Subject(t.refresh)].Active

----------------------------------------------------------------------------
\* C16: an issued token with any part of its signature segment changed, or
\* signed with another secret, is refused by ValidateToken; Verify, Refresh and
\* AuthMiddleware accept only token strings that were issued.
TokenIntegrity ==
    [][/\ \A s \in Issued :
             /\ \A k \in 1 .. 4 : ~ValidateToken(TamperAt(s, k)).ok
             /\ ~ValidateToken(Forge(s)).ok
             /\ ~ValidateToken(Tamper(s)).ok
       /\ (Request(TokenRoutes) /\ resp'.status = StatusOK) => resp'.cred \in Issued
       /\ (Request(ChainOps) /\ resp'.handler)
             => \E s \in Issued : Carries(resp'.cred, s)]_vars

\* Verify refused an unexpired token of an active user whose signature was changed
TamperedWitness ==
    /\ resp.op = "VerifyToken"
    /\ resp.status = StatusUnauthorized
    /\ \E s \in Issued, k \in 1 .. 4 :
          /\ resp.cred = TamperAt(s, k)
          /\ now < Expiry(s)
          /\ Subject(s) \in DOMAIN users
          /\ users[Subject(s)].Active

----------------------------------------------------------------------------
\* C17: an unexpired refresh token of a stored, active user is accepted by
\* AuthMiddleware and by Verify, and an unexpired access token of such a user
\* is accepted by Refresh, which hands out a new pair.
Live(s) ==
    /\ now < Expiry(s)
    /\ Subject(s) \in DOMAIN users
    /\ users[Subject(s)].Active

RefreshTokens == {t.refresh : t \in tokens}

Interchangeable ==
    [][/\ \A s \in RefreshTokens :
             Live(s) => /\ AuthMiddleware(bearerPrefix \o s).status = 0
                        /\ AuthMiddleware(bearerPrefix \o s).ctx.user_id = Subject(s)
       /\ (Request({"GetCurrentUser"}) /\ \E s \in RefreshTokens :
                                            resp'.cred = bearerPrefix \o s /\ Live(s))
             => (resp'.status = StatusOK /\ resp'.handler)
       /\ (Request({"VerifyToken"}) /\ resp'.cred \in RefreshTokens /\ Live(resp'.cred))
             => (resp'.status = StatusOK /\ resp'.body.id = Subject(resp'.cred))
       /\ (Request({"RefreshToken"}) /\ resp'.cred \in Access /\ Live(resp'.cred))
             => /\ resp'.status = StatusOK
                /\ Subject(resp'.body.access_token) = Subject(resp'.cred)
                /\ Subject(resp'.body.refresh_token) = Subject(resp'.cred)
                /\ resp'.body.access_token \in {t.access : t \in tokens'}
                /\ resp'.body.refresh_token \in {t.refresh : t \in tokens'}]_vars

\* AuthMiddleware let a refresh token through after the access token issued
\* with it had expired
RefreshAsAccessWitness ==
    /\ resp.op = "GetCurrentUser"
    /\ resp.status = StatusOK
    /\ \E t \in tokens :
          /\ resp.cred = bearerPrefix \o t.refresh
          /\ now >= Expiry(t.access)
          /\ resp.body.id = Subject(t.refresh)

----------------------------------------------------------------------------
\* C18: every 200 of Login and of Refresh carries a non-empty access token, a
\* non-empty refresh token and expires_in = 86400, the number of seconds from
\* now to the expiry of that access token.
TokenResponseComplete ==
    [][(Request({"Login", "RefreshToken"}) /\ resp'.status = StatusOK)
          => /\ Len(resp'.body.access_token) > 0
             /\ Len(resp'.body.refresh_token) > 0
             /\ resp'.body.expires_in = 86400
             /\ (Expiry(resp'.body.access_token) - now) * SecondsPerDay
                    = resp'.body.expires_in
             /\ ValidateToken(resp'.body.access_token).ok
             /\ ValidateToken(resp'.body.refresh_token).ok]_vars

\* Refresh answered 200 with a pair and the lifetime
TokenResponseWitness ==
    /\ resp.op = "RefreshToken"
    /\ resp.status = StatusOK
    /\ resp.body.expires_in = 86400
    /\ resp.body.access_token \in Access
    /\ resp.body.refresh_token \in RefreshTokens

----------------------------------------------------------------------------
\* C19: Refresh answers 200 only for a token that validates and whose subject
\* is stored and active, and then hands out a pair made for the id and e-mail
\* address stored for that subject; every other request that carries a token is
\* answered 401; no request but a 200 adds a token, and none changes a user.
RefreshGuarded ==
    [][Request({"RefreshToken"})
          => /\ resp'.status = StatusOK
                   => /\ ValidateToken(resp'.cred).ok
                      /\ Subject(resp'.cred) \in DOMAIN users
                      /\ \E u \in {users[Subject(resp'.cred)]} :
                            /\ u.Active
                            /\ resp'.body.access_token = GenerateToken(u.ID, u.Email)
                            /\ resp'.body.refresh_token = GenerateRefreshToken(u.ID, u.Email)
                            /\ tokens' = tokens \cup {[access |-> resp'.body.access_token,
                                                       refresh |-> resp'.body.refresh_token,
                                                       role |-> u.Role]}
             /\ resp'.status # StatusOK
                   => /\ tokens' = tokens
                      /\ resp'.cred # EmptyToken => resp'.status = StatusUnauthorized
             /\ StoreUnchanged]_vars

\* Refresh refused a token that validates because its subject is no longer stored
RefreshMissingWitness ==
    /\ resp.op = "RefreshToken"
    /\ resp.status = StatusUnauthorized
    /\ ValidateToken(resp.cred).ok
    /\ Subject(resp.cred) \notin DOMAIN users

----------------------------------------------------------------------------
\* C20: a 200 of Verify carries the id, e-mail address, names, role, active
\* flag and timestamps stored for the token's subject at the time of the call,
\* and nothing else: no password hash.
ProfileFields ==
    {"kind", "id", "created_at", "updated_at", "email", "first_name", "last_name",
     "role", "active"}

VerifyReturnsStored ==
    [][(Request({"VerifyToken"}) /\ resp'.status = StatusOK)
          => /\ Subject(resp'.cred) \in DOMAIN users
             /\ \E u \in {users[Subject(resp'.cred)]} :
                   /\ resp'.body.id = u.ID
                   /\ resp'.body.email = u.Email
                   /\ resp'.body.first_name = u.FirstName
                   /\ resp'.body.last_name = u.LastName
                   /\ resp'.body.role = u.Role
                   /\ resp'.body.active = u.Active
                   /\ resp'.body.created_at = u.CreatedAt
                   /\ resp'.body.updated_at = u.UpdatedAt
             /\ DOMAIN resp'.body = ProfileFields]_vars

\* Verify answered with a role and a name that the subject did not have when the
\* token was issued
ChangedProfileWitness ==
    /\ resp.op = "VerifyToken"
    /\ resp.status = StatusOK
    /\ resp.body.first_name = "Ana"
    /\ resp.body.updated_at > resp.body.created_at
    /\ \E t \in tokens :
          /\ resp.cred \in {t.access, t.refresh}
          /\ t.role # resp.body.role

----------------------------------------------------------------------------
\* C21: Verify answers a request that carries a token with 200 and a profile
\* when the token validates and its subject is stored and active, and with 401
\* and an error body, never a profile, in every other case: a string that is no
\* token, a changed signature, an expired token, a subject that was deleted, a
\* subject that is inactive.
Accepted(s) ==
    \E claims \in {ValidateToken(s)} :
        /\ claims.ok
        /\ UserFound(claims.UserID)
        /\ users[claims.UserID].Active

VerifyRejectsUniformly ==
    [][(Request({"VerifyToken"}) /\ resp'.cred # EmptyToken)
          => /\ Accepted(resp'.cred)
                   => resp'.status = StatusOK /\ resp'.body.kind = "user"
             /\ ~Accepted(resp'.cred)
                   => /\ resp'.status = StatusUnauthorized
                      /\ DOMAIN resp'.body = {"kind", "error"}
                      /\ resp'.body.kind = "error"]_vars

\* Verify refused an issued token of a stored, active user because it has expired
VerifyExpiredWitness ==
    /\ resp.op = "VerifyToken"
    /\ resp.status = StatusUnauthorized
    /\ resp.cred \in Issued
    /\ now >= Expiry(resp.cred)
    /\ UserFound(Subject(resp.cred))
    /\ users[Subject(resp.cred)].Active

----------------------------------------------------------------------------
\* C22: two refused requests that carry a token and differ only in why the
\* token is refused (expired, wrongly signed, subject deleted, subject
\* inactive) are answered alike: the same status and the same body, on Verify,
\* on Refresh and behind AuthMiddleware.
TokenRefused(r) ==
    /\ r.status = StatusUnauthorized
    /\ \/ r.op \in {"VerifyToken", "RefreshToken"} /\ r.cred # EmptyToken
       \/ /\ r.op \in ChainOps
          /\ ~r.handler
          /\ HasBearerPrefix(r.cred)
          /\ Len(r.cred) > Len(bearerPrefix)

SameCheck(r, q) == r.op = q.op \/ (r.op \in ChainOps /\ q.op \in ChainOps)

RejectionsIndistinguishable ==
    [][(~EnvStep /\ TokenRefused(resp) /\ TokenRefused(resp') /\ SameCheck(resp, resp'))
          => resp'.status = resp.status /\ resp'.body = resp.body]_vars

----------------------------------------------------------------------------
\* C23: ChangePassword by an authenticated caller with an old password that is
\* not the one behind the caller's stored hash is answered 401 by the handler,
\* and the step leaves every field of every user, the password hash included,
\* as it was; so does every ChangePassword step that is answered 401.
Caller(h) == ProtectedChain(h).ctx.user_id

WrongOldPasswordRefused ==
    [][/\ \A h \in ClientHeaders \cap {resp'.cred}, b \in PasswordBodies :
             (/\ resp'.op = "ChangePassword"
              /\ Passes(ProtectedChain(h))
              /\ BindChangePassword(b.old, b.new)
              /\ users[Caller(h)].PasswordHash # Hash(b.old)
              /\ ChangePassword(h, b.old, b.new))
                => /\ resp'.status = StatusUnauthorized
                   /\ resp'.handler
                   /\ StoreUnchanged
       /\ (Request({"ChangePassword"}) /\ resp'.status = StatusUnauthorized)
             => StoreUnchanged]_vars

\* the handler refused a password change of an authenticated caller
WrongOldPasswordWitness ==
    /\ resp.op = "ChangePassword"
    /\ resp.status = StatusUnauthorized
    /\ resp.handler
    /\ resp.body = ErrorBody("Invalid old password")
    /\ users[resp.ctx.user_id].PasswordHash = Hash("admin123")

----------------------------------------------------------------------------
\* C24: when ChangePassword(old, new) answers 200 for a caller, then in the
\* state it leaves Login with the caller's e-mail address and new answers 200
\* with tokens of the caller, Login with old, when old differs from new, is
\* answered 401 "invalid credentials", the stored hash is the one SetPassword
\* makes of new, and no user's stored hash is anything but a bcrypt hash.
GenericRefusal ==
    Response("Login", <<>>, StatusUnauthorized, ErrorBody("invalid credentials"), NoCtx, TRUE)

HashedOnly == \A id \in DOMAIN users : users[id].PasswordHash[1] = "bcrypt"

PasswordChangeTakesEffect ==
    [][/\ \A h \in ClientHeaders \cap {resp'.cred}, b \in PasswordBodies :
             (/\ resp'.op = "ChangePassword"
              /\ resp'.status = StatusOK
              /\ Passes(ProtectedChain(h))
              /\ ChangePassword(h, b.old, b.new))
                => \E id \in {Caller(h)} :
                      /\ LoginSucceeds(users[id].Email, b.new)'
                      /\ b.old # b.new => (LoginReply(users[id].Email, b.old) = GenericRefusal)'
                      /\ users'[id] = Saved(SetPassword(users[id], b.new))
                      /\ \A other \in DOMAIN users \ {id} :
                            other \in DOMAIN users' /\ users'[other] = users[other]
       /\ HashedOnly']_vars

\* a caller whose password was admin123 has changed it to password123
PasswordChangedWitness ==
    /\ resp.op = "ChangePassword"
    /\ resp.status = StatusOK
    /\ resp.ctx.user_id = 1
    /\ users[1].PasswordHash = Hash("password123")

----------------------------------------------------------------------------
\* C25: UsersShow, UsersUpdate and UsersDelete, called by an admin with an id
\* that no stored user has, answer 404 and leave the store as it was; and a 404
\* is only ever the answer of one of these three handlers to an admin.
TargetOps == {"UsersShow", "UsersUpdate", "UsersDelete"}

MissingTargetNotFound ==
    [][/\ \A h \in ClientHeaders \cap {resp'.cred}, id \in Ids \ DOMAIN users :
             (resp'.op \in TargetOps /\ Passes(AdminChain(h)))
                => /\ (\/ UsersShow(h, id)
                       \/ UsersDelete(h, id)
                       \/ \E b \in UpdateBodies : UsersUpdate(h, id, b.first, b.last, b.active))
                         => resp'.status = StatusNotFound /\ StoreUnchanged
       /\ (~EnvStep /\ resp'.status = StatusNotFound)
             => /\ resp'.op \in TargetOps
                /\ resp'.handler
                /\ resp'.ctx.user_role = RoleAdmin
                /\ StoreUnchanged]_vars

\* an admin asked to delete a user that had been deleted already
MissingTargetWitness ==
    /\ resp.op = "UsersDelete"
    /\ resp.status = StatusNotFound
    /\ resp.handler
    /\ nextId > MaxUsers
    /\ Cardinality(DOMAIN users) = 1

----------------------------------------------------------------------------
\* C26: a 204 of UsersDelete removes exactly the target's row, and in the state
\* it leaves Login with the target's e-mail address is refused for every
\* password; ids are never handed out twice, and Login is refused for an
\* address no stored user has; every issued token whose subject is no longer
\* stored is answered 401 by Verify, by Refresh and by AuthMiddleware, whether
\* or not a new user has the subject's e-mail address by then.
Orphan(s) == s \in Issued /\ Subject(s) \notin DOMAIN users

DeletionIsFinal ==
    [][/\ (Request({"UsersDelete"}) /\ resp'.status = StatusNoContent)
             => \E id \in DOMAIN users \ DOMAIN users' :
                   /\ DOMAIN users' = DOMAIN users \ {id}
                   /\ \E e \in {users[id].Email} :
                         (\A p \in LoginInputs :
                              LoginReply(e, p).status = StatusUnauthorized)'
       /\ users' # users
             => (\A e \in Emails, p \in LoginInputs :
                     UnknownEmail(e) => LoginReply(e, p).status = StatusUnauthorized)'
       /\ nextId' >= nextId
       /\ \A id \in DOMAIN users' : id < nextId'
       /\ \A id \in DOMAIN users' \ DOMAIN users : id >= nextId
       /\ (Request({"VerifyToken", "RefreshToken"}) /\ Orphan(resp'.cred))
             => resp'.status = StatusUnauthorized /\ StoreUnchanged /\ tokens' = tokens
       /\ (Request(ChainOps) /\ \E s \in Issued : Orphan(s) /\ Carries(resp'.cred, s))
             => Rejected401(resp') /\ StoreUnchanged]_vars

\* a token of a deleted user was refused by AuthMiddleware before it expired,
\* while a user created since has the deleted user's e-mail address
DeletedThenRecreatedWitness ==
    /\ resp.op \in ChainOps
    /\ Rejected401(resp)
    /\ \E s \in Issued :
          /\ Carries(resp.cred, s)
          /\ Orphan(s)
          /\ now < Expiry(s)
          /\ \E id \in DOMAIN users : users[id].Email = s[6]

----------------------------------------------------------------------------
\* C27: when AdminCreateUser answers 201, the row it adds has the role and the
\* active flag of the request; a user created with active = false cannot log
\* in with the password of the request.
AdminCreateStoresGiven ==
    [][\A h \in ClientHeaders \cap {resp'.cred}, b \in CreateBodies :
           (/\ resp'.op = "AdminCreateUser"
            /\ resp'.status = StatusCreated
            /\ AdminCreateUser(h, b.email, b.password, "", "", b.role, b.active))
              => \E id \in DOMAIN users' \ DOMAIN users :
                    /\ users'[id].Role = b.role
                    /\ users'[id].Active = b.active
                    /\ ~b.active
                          => (LoginReply(b.email, b.password).status = StatusUnauthorized)']_vars

----------------------------------------------------------------------------
(* Store failures.  A lookup may return an error that is not                *)
(* gorm.ErrRecordNotFound: the connection is lost, the query is cancelled.  *)
(* fault tells whether the request's lookup does.                           *)

StatusInternalServerError == 500

\* the text of the driver's error
ErrStore == "driver: bad connection"

\* ValidateCredentials returns an error of GetUserByEmail that is not
\* ErrRecordNotFound as it is
ValidateCredentialsOn(email, password, fault) ==
    IF fault
    THEN [ok |-> FALSE, err |-> ErrStore, id |-> 0]
    ELSE ValidateCredentials(email, password)

\* Login answers 401 with the text of whatever error ValidateCredentials returns
LoginOn(email, password, fault) ==
    IF BindLogin(email, password) /\ ~ValidateCredentialsOn(email, password, fault).ok
    THEN /\ resp' = Response("Login", <<>>, StatusUnauthorized,
                             ErrorBody(ValidateCredentialsOn(email, password, fault).err),
                             NoCtx, TRUE)
         /\ UNCHANGED <<users, nextId, now, tokens>>
    ELSE Login(email, password)

\* AuthMiddleware answers 401 "User not found" for every error of GetUser
AuthMiddlewareOn(authHeader, fault) ==
    IF authHeader = <<>>
    THEN [status |-> StatusUnauthorized, error |-> "Authorization header required", ctx |-> NoCtx]
    ELSE IF Len(authHeader) < Len(bearerPrefix)
    THEN [status |-> StatusUnauthorized, error |-> "Invalid authorization header format", ctx |-> NoCtx]
    ELSE LET tokenString == SubSeq(authHeader, Len(bearerPrefix) + 1, Len(authHeader))
             claims == ValidateToken(tokenString)
         IN  IF ~claims.ok
             THEN [status |-> StatusUnauthorized, error |-> "Invalid or expired token", ctx |-> NoCtx]
             ELSE IF fault \/ ~UserFound(claims.UserID)
             THEN [status |-> StatusUnauthorized, error |-> "User not found", ctx |-> NoCtx]
             ELSE IF ~users[claims.UserID].Active
             THEN [status |-> StatusUnauthorized, error |-> "User account is inactive", ctx |-> NoCtx]
             ELSE [status |-> 0, error |-> "",
                   ctx |-> [user_id |-> claims.UserID, user_email |-> claims.Email,
                            user_role |-> users[claims.UserID].Role]]

\* GET /me when the middleware's lookup may fail
GetCurrentUserOn(authHeader, fault) ==
    LET mw == AuthMiddlewareOn(authHeader, fault) IN
    /\ resp' =
         IF mw.status # 0
         THEN Aborted("GetCurrentUser", authHeader, mw)
         ELSE Response("GetCurrentUser", authHeader, StatusOK,
                       newUserResponse(users[mw.ctx.user_id]), mw.ctx, TRUE)
    /\ UNCHANGED <<users, nextId, now, tokens>>

NextStore ==
    \/ Tick
    \/ \E e \in Emails : RegisterUser(e, ValidPassword, "", "")
    \/ \E e \in Emails, p \in Passwords, fault \in BOOLEAN : LoginOn(e, p, fault)
    \/ \E h \in Headers, fault \in BOOLEAN : GetCurrentUserOn(h, fault)

SpecStore == Init /\ [][NextStore]_vars

----------------------------------------------------------------------------
\* C28: a request whose user lookup fails with an error that is not
\* record-not-found, in Login's credential check or in AuthMiddleware, is
\* answered with an internal error (500) that does not carry the store's
\* error text, and never with 401.
ReachesLookup(h) ==
    /\ Len(h) >= Len(bearerPrefix)
    /\ ValidateToken(SubSeq(h, Len(bearerPrefix) + 1, Len(h))).ok

StoreFailureIsInternal ==
    [][/\ \A e \in Emails, p \in Passwords :
             (resp'.op = "Login" /\ BindLogin(e, p) /\ LoginOn(e, p, TRUE))
                => /\ resp'.status = StatusInternalServerError
                   /\ resp'.body # ErrorBody(ErrStore)
       /\ \A h \in Headers \cap {resp'.cred} :
             (resp'.op = "GetCurrentUser" /\ ReachesLookup(h) /\ GetCurrentUserOn(h, TRUE))
                => resp'.status = StatusInternalServerError]_vars

----------------------------------------------------------------------------
(* The routes that write a user, with names in the requests: callers rename *)
(* themselves and admins rename, deactivate, create and delete users.       *)

FirstNames == {"", "Ana"}
LastNames == {"", "Novak"}

\* AdminUpdateUserRequest: a name that is present has at least one character
NameBodies ==
    [first : Opt(FirstNames \ {""}), last : Opt(LastNames \ {""}), active : Opt(BOOLEAN)]

NextWrite ==
    \/ \E e \in Emails : RegisterUser(e, ValidPassword, "", "")
    \/ \E e \in Emails, p \in Passwords : Login(e, p)
    \/ \E h \in ClientHeaders, first \in FirstNames, last \in LastNames :
           UpdateCurrentUser(h, first, last)
    \/ \E h \in ClientHeaders :
           \E b \in IF Passes(ProtectedChain(h)) THEN PasswordBodies ELSE PasswordProbes :
               ChangePassword(h, b.old, b.new)
    \/ \E h \in ClientHeaders :
           \E b \in IF Passes(AdminChain(h)) THEN CreateBodies ELSE CreateProbes :
               AdminCreateUser(h, b.email, b.password, "", "", b.role, b.active)
    \/ \E h \in ClientHeaders, id \in Ids :
           \E b \in IF Passes(AdminChain(h)) THEN NameBodies ELSE UpdateProbes :
               UsersUpdate(h, id, b.first, b.last, b.active)
    \/ \E h \in ClientHeaders, id \in Ids : UsersDelete(h, id)

SpecWrite == Init /\ [][NextWrite]_vars

----------------------------------------------------------------------------
\* C29: UpdateCurrentUser by an authenticated caller sets the caller's first
\* name to the one in the request when that is not empty, likewise the last
\* name, and leaves the caller's id, e-mail address, password hash, role,
\* active flag and creation time, and every other user's row, as they were; a
\* request the middleware refuses writes nothing.
KeptFields == {"ID", "CreatedAt", "Email", "PasswordHash", "Role", "Active"}

OthersUnchanged(id) ==
    /\ DOMAIN users' = DOMAIN users
    /\ nextId' = nextId
    /\ \A other \in DOMAIN users \ {id} : users'[other] = users[other]

SelfUpdateFrame ==
    [][/\ \A h \in ClientHeaders \cap {resp'.cred}, first \in FirstNames, last \in LastNames :
             (/\ resp'.op = "UpdateCurrentUser"
              /\ Passes(ProtectedChain(h))
              /\ UpdateCurrentUser(h, first, last))
                => \E id \in {Caller(h)} :
                      /\ resp'.status = StatusOK
                      /\ OthersUnchanged(id)
                      /\ \A f \in KeptFields : users'[id][f] = users[id][f]
                      /\ users'[id].FirstName = IF first # "" THEN first ELSE users[id].FirstName
                      /\ users'[id].LastName = IF last # "" THEN last ELSE users[id].LastName
       /\ (Request({"UpdateCurrentUser"}) /\ resp'.status # StatusOK) => StoreUnchanged]_vars

\* a registered user who has a last name sent a first name alone, while the
\* admin has names of its own
SelfRenameWitness ==
    /\ resp.op = "UpdateCurrentUser"
    /\ resp.status = StatusOK
    /\ resp.ctx.user_id = 2
    /\ users[2].FirstName = "Ana"
    /\ users[2].LastName = "Novak"
    /\ 1 \in DOMAIN users
    /\ users[1].FirstName = "Ana"
    /\ users[1].LastName = ""

----------------------------------------------------------------------------
\* C30: UsersUpdate by an admin on a stored target sets the target's first
\* name, last name and active flag to those present in the request and leaves
\* the ones absent, the target's other fields and every other row as they were;
\* and no step of any route changes the id, the e-mail address or the role of a
\* user that stays stored, so a row's role is the one it was created with.
Identity == {"ID", "Email", "Role"}

AdminUpdateFrame ==
    [][/\ (resp'.op = "UsersUpdate" /\ users' # users) =>
           \A h \in ClientHeaders \cap {resp'.cred}, id \in DOMAIN users, b \in NameBodies :
             (/\ Passes(AdminChain(h))
              /\ UsersUpdate(h, id, b.first, b.last, b.active))
                => /\ resp'.status = StatusOK
                   /\ OthersUnchanged(id)
                   /\ \A f \in KeptFields \ {"Active"} : users'[id][f] = users[id][f]
                   /\ users'[id].FirstName =
                          IF b.first # <<>> THEN b.first[1] ELSE users[id].FirstName
                   /\ users'[id].LastName =
                          IF b.last # <<>> THEN b.last[1] ELSE users[id].LastName
                   /\ users'[id].Active =
                          IF b.active # <<>> THEN b.active[1] ELSE users[id].Active
       /\ users' # users
             => /\ \A id \in DOMAIN users \cap DOMAIN users', f \in Identity :
                       users'[id][f] = users[id][f]
                /\ \A id \in DOMAIN users' : users'[id].ID = id]_vars

\* an admin gave an employee a first name and nothing else: the employee is
\* still active and still an employee
AdminRenameWitness ==
    /\ resp.op = "UsersUpdate"
    /\ resp.status = StatusOK
    /\ resp.body.id # resp.ctx.user_id
    /\ resp.body.role = RoleEmployee
    /\ resp.body.first_name = "Ana"
    /\ resp.body.last_name = ""
    /\ resp.body.active

----------------------------------------------------------------------------
(* AuthMiddleware gate by gate.  resp holds the request in the middleware:  *)
(* gate is how far it has come, ctx what c.Set has published, handler       *)
(* whether c.Next has run the handler (here GetCurrentUser).  The clock     *)
(* does not advance while a request is in the middleware.                   *)

Gates ==
    <<"Unauthenticated", "TokenExtracted", "TokenValidated", "IdentityResolved",
      "Authenticated">>

InMiddleware == resp.op = "AuthMiddleware"

Reject(error) ==
    [resp EXCEPT !.gate = "Rejected", !.status = StatusUnauthorized, !.body = ErrorBody(error)]

\* the token string the middleware slices out of the header
TokenOf(authHeader) == SubSeq(authHeader, Len(bearerPrefix) + 1, Len(authHeader))

\* a request with header authHeader reaches the middleware
Receive(authHeader) ==
    /\ resp' = [op |-> "AuthMiddleware", cred |-> authHeader, status |-> 0, body |-> NoBody,
                ctx |-> NoCtx, handler |-> FALSE, gate |-> "Unauthenticated"]
    /\ UNCHANGED <<users, nextId, now, tokens>>

\* c.GetHeader and the length test
ExtractToken ==
    /\ InMiddleware /\ resp.gate = "Unauthenticated"
    /\ resp' = IF resp.cred = <<>>
               THEN Reject("Authorization header required")
               ELSE IF Len(resp.cred) < Len(bearerPrefix)
               THEN Reject("Invalid authorization header format")
               ELSE [resp EXCEPT !.gate = "TokenExtracted"]
    /\ UNCHANGED <<users, nextId, now, tokens>>

\* auth.ValidateToken
ValidateClaims ==
    /\ InMiddleware /\ resp.gate = "TokenExtracted"
    /\ resp' = IF ~ValidateToken(TokenOf(resp.cred)).ok
               THEN Reject("Invalid or expired token")
               ELSE [resp EXCEPT !.gate = "TokenValidated"]
    /\ UNCHANGED <<users, nextId, now, tokens>>

\* models.GetUser
ResolveIdentity ==
    /\ InMiddleware /\ resp.gate = "TokenValidated"
    /\ resp' = IF ~UserFound(ValidateToken(TokenOf(resp.cred)).UserID)
               THEN Reject("User not found")
               ELSE [resp EXCEPT !.gate = "IdentityResolved"]
    /\ UNCHANGED <<users, nextId, now, tokens>>

\* mutant: the identity is published before the active flag is tested
PublishIdentityFirst ==
    /\ InMiddleware /\ resp.gate = "IdentityResolved"
    /\ LET claims == ValidateToken(TokenOf(resp.cred))
           ctx == [user_id |-> claims.UserID, user_email |-> claims.Email,
                   user_role |-> users[claims.UserID].Role]
       IN  resp' = IF ~users[claims.UserID].Active
                   THEN [Reject("User account is inactive") EXCEPT !.ctx = ctx]
                   ELSE [resp EXCEPT !.gate = "Authenticated", !.ctx = ctx]
    /\ UNCHANGED <<users, nextId, now, tokens>>

\* the active test, then the three c.Set
PublishIdentity ==
    /\ InMiddleware /\ resp.gate = "IdentityResolved"
    /\ LET claims == ValidateToken(TokenOf(resp.cred)) IN
       resp' = IF ~users[claims.UserID].Active
               THEN Reject("User account is inactive")
               ELSE [resp EXCEPT !.gate = "Authenticated",
                                 !.ctx = [user_id |-> claims.UserID,
                                          user_email |-> claims.Email,
                                          user_role |-> users[claims.UserID].Role]]
    /\ UNCHANGED <<users, nextId, now, tokens>>

\* c.Next: the handler of GET /me
RunHandler ==
    /\ InMiddleware /\ resp.gate = "Authenticated" /\ ~resp.handler
    /\ resp' = [resp EXCEPT !.handler = TRUE, !.status = StatusOK,
                            !.body = newUserResponse(users[resp.ctx.user_id])]
    /\ UNCHANGED <<users, nextId, now, tokens>>

TickBetween ==
    /\ InMiddleware => resp.gate = "Rejected" \/ resp.handler
    /\ Tick

NextGates ==
    \/ TickBetween
    \/ Login(AdminEmail, "admin123")
    \/ \E h \in ClientHeaders, active \in BOOLEAN : UsersUpdate(h, 1, <<>>, <<>>, <<active>>)
    \/ \E h \in ClientHeaders : UsersDelete(h, 1)
    \/ \E h \in Headers : Receive(h)
    \/ ExtractToken
    \/ ValidateClaims
    \/ ResolveIdentity
    \/ PublishIdentity
    \/ RunHandler

SpecGates == Init /\ [][NextGates]_vars

----------------------------------------------------------------------------
\* C31: a request in AuthMiddleware moves one gate at a time in the order
\* Unauthenticated, TokenExtracted, TokenValidated, IdentityResolved,
\* Authenticated, or from any of these but the last to Rejected; nothing
\* follows Rejected but the arrival of another request; the context is empty at every gate before
\* Authenticated and at Rejected, holds user_id, user_email and user_role at
\* Authenticated, and the handler runs only there; and the outcome is the one
\* AuthMiddleware gives for the header.
GateIndex(g) == CHOOSE i \in 1 .. Len(Gates) : Gates[i] = g

IdentityKeys == {"user_id", "user_email", "user_role"}

GateOrder ==
    [][(resp'.op = "AuthMiddleware" /\ resp' # resp)
          => /\ \/ resp'.gate = "Unauthenticated" /\ resp'.status = 0
                \/ /\ InMiddleware
                   /\ resp'.cred = resp.cred
                   /\ resp.gate \in {Gates[i] : i \in 1 .. 4}
                   /\ \/ resp'.gate = "Rejected"
                      \/ /\ resp'.gate # "Rejected"
                         /\ GateIndex(resp'.gate) = GateIndex(resp.gate) + 1
                \/ /\ InMiddleware
                   /\ resp.gate = "Authenticated" /\ resp'.gate = "Authenticated"
                   /\ ~resp.handler /\ resp'.handler
                   /\ resp'.ctx = resp.ctx
             /\ resp'.gate # "Authenticated" => resp'.ctx = NoCtx /\ ~resp'.handler
             /\ resp'.gate = "Authenticated" => DOMAIN resp'.ctx = IdentityKeys
             /\ resp'.gate = "Rejected"
                   => /\ resp'.status = StatusUnauthorized
                      /\ AuthMiddleware(resp'.cred).status = StatusUnauthorized
                      /\ resp'.body = ErrorBody(AuthMiddleware(resp'.cred).error)
             /\ resp'.gate = "Authenticated"
                   => AuthMiddleware(resp'.cred) = [status |-> 0, error |-> "", ctx |-> resp'.ctx]
             /\ StoreUnchanged]_vars

\* a request with a valid token of a deactivated user passed three gates and
\* was rejected at the active test
RejectedAtActiveWitness ==
    /\ InMiddleware
    /\ resp.gate = "Rejected"
    /\ resp.body = ErrorBody("User account is inactive")
    /\ resp.ctx = NoCtx
    /\ ~resp.handler

----------------------------------------------------------------------------
\* C32: on the admin routes a request that AuthMiddleware does not
\* authenticate is answered 401, one that it authenticates for a user who is
\* not an admin is answered 403, in both cases without the handler and without
\* a write, whatever the body and the target id; 400, 404 and 409 are answers
\* of a handler run for an admin.
AuthBeforeRoleBeforeHandler ==
    [][Request(AdminOps)
          => \E mw \in {AuthMiddleware(resp'.cred)} :
                /\ mw.status # 0
                      => /\ resp'.status = StatusUnauthorized
                         /\ ~resp'.handler
                         /\ StoreUnchanged
                /\ (mw.status = 0 /\ mw.ctx.user_role # RoleAdmin)
                      => /\ resp'.status = StatusForbidden
                         /\ ~resp'.handler
                         /\ StoreUnchanged
                /\ resp'.status \in {StatusBadRequest, StatusNotFound, StatusConflict}
                      => /\ resp'.handler
                         /\ mw.status = 0
                         /\ mw.ctx.user_role = RoleAdmin]_vars

\* a customer asked to delete a user, stored or not, and was answered 403
NonAdminAnyTargetWitness ==
    /\ resp.op = "UsersDelete"
    /\ resp.status = StatusForbidden
    /\ ~resp.handler
    /\ resp.ctx.user_role = RoleCustomer
    /\ Ids \ DOMAIN users # {}

----------------------------------------------------------------------------
(* Requests in flight.  Every request runs in a transaction of its own and   *)
(* each store call of its handler is a step, so two requests interleave at  *)
(* their store calls: the middleware chain and binding (Arrive), the        *)
(* handler's read (Lookup), the handler's write, which the transaction      *)
(* commits as the handler returns (Write).  resp holds the two requests.    *)

Slots == {1, 2}

Idle ==
    [route |-> "none", pc |-> "idle", cred |-> <<>>, ctx |-> NoCtx, body |-> NoBody,
     row |-> <<>>, status |-> 0, reply |-> NoBody]

Concurrent == resp.op = "Concurrent"

Reqs == IF Concurrent THEN resp.reqs ELSE [s \in Slots |-> Idle]

SetReq(s, r) ==
    resp' = [op |-> "Concurrent", cred |-> <<>>, status |-> 0, body |-> NoBody,
             ctx |-> NoCtx, handler |-> FALSE, reqs |-> [Reqs EXCEPT ![s] = r]]

Done(r, status, reply) == [r EXCEPT !.pc = "done", !.status = status, !.reply = reply]

\* what ErrorMiddleware answers for an error a handler hands to c.Error that is
\* not a validation error: an opaque internal error
ErrorMiddleware(err) == [status |-> StatusInternalServerError, body |-> ErrorBody("internal error")]

Failed(r, err) == Done(r, ErrorMiddleware(err).status, ErrorMiddleware(err).body)

CreateRoutes == {"RegisterUser", "AdminCreateUser"}
SelfRoutes == {"UpdateCurrentUser", "ChangePassword"}
TargetRoutes == {"UsersUpdate", "UsersDelete"}

RaceEmail == "customer@example.com"

\* the bodies of the requests that race
RaceBodies(route) ==
    CASE route = "RegisterUser" ->
             [email : {RaceEmail}, password : {ValidPassword}, role : {RoleCustomer},
              active : {TRUE}]
      [] route = "AdminCreateUser" ->
             [email : {RaceEmail}, password : {ValidPassword}, role : {RoleEmployee},
              active : {TRUE}]
      [] route = "UpdateCurrentUser" -> [first : {"Ana"}, last : {""}]
      [] route = "ChangePassword" -> [old : {ValidPassword}, new : {"admin123"}]
      [] route = "UsersUpdate" ->
             [target : Ids, first : {<<>>}, last : {<<>>}, active : {<<FALSE>>}]
      [] route = "UsersDelete" -> [target : Ids]

Chain(route, authHeader) ==
    IF route = "RegisterUser" THEN [status |-> 0, error |-> "", ctx |-> NoCtx]
    ELSE IF route \in SelfRoutes THEN ProtectedChain(authHeader)
    ELSE AdminChain(authHeader)

Bound(route, body) ==
    CASE route = "RegisterUser" -> BindRegister(body.email, body.password)
      [] route = "AdminCreateUser" -> BindAdminCreate(body.email, body.password, body.role)
      [] route = "ChangePassword" -> BindChangePassword(body.old, body.new)
      [] OTHER -> TRUE

\* a request reaches the free slot s: the middleware chain, then ShouldBindJSON
Arrive(s, route, authHeader, body) ==
    /\ Reqs[s].pc = "idle"
    /\ LET mw == Chain(route, authHeader)
           r == [Idle EXCEPT !.route = route, !.cred = authHeader, !.body = body,
                             !.ctx = mw.ctx]
       IN  SetReq(s, IF mw.status # 0
                     THEN Done(r, mw.status, ErrorBody(mw.error))
                     ELSE IF ~Bound(route, body)
                     THEN Done(r, StatusBadRequest, ErrorBody("validation"))
                     ELSE [r EXCEPT !.pc = "handler"])
    /\ UNCHANGED <<users, nextId, now, tokens>>

\* the handler's read: UserExists of a creation, GetUser of the caller or of
\* the target
Lookup(s) ==
    LET r == Reqs[s] IN
    /\ r.pc = "handler"
    /\ SetReq(s,
         IF r.route \in CreateRoutes
         THEN IF UserExists(r.body.email)
              THEN Done(r, StatusConflict, ErrorBody("User with this email already exists"))
              ELSE [r EXCEPT !.pc = "checked"]
         ELSE IF r.route \in SelfRoutes
         THEN IF ~UserFound(r.ctx.user_id)
              THEN Failed(r, "record not found")
              ELSE IF r.route = "ChangePassword"
                      /\ ~CheckPassword(users[r.ctx.user_id], r.body.old)
              THEN Done(r, StatusUnauthorized, ErrorBody("Invalid old password"))
              ELSE [r EXCEPT !.pc = "read", !.row = users[r.ctx.user_id]]
         ELSE IF ~UserFound(r.body.target)
              THEN Done(r, StatusNotFound, ErrorBody("record not found"))
              ELSE [r EXCEPT !.pc = "read", !.row = users[r.body.target]])
    /\ UNCHANGED <<users, nextId, now, tokens>>

\* the row a creation request inserts
NewUser(r) ==
    SetPassword([ID |-> 0, CreatedAt |-> 0, UpdatedAt |-> 0, Email |-> r.body.email,
                 PasswordHash |-> <<>>, FirstName |-> "", LastName |-> "",
                 Role |-> r.body.role, Active |-> r.body.active], r.body.password)

\* the row an update request saves: the row it read, with the request's fields
Changed(r) ==
    CASE r.route = "UpdateCurrentUser" ->
             [r.row EXCEPT !.FirstName = IF r.body.first # "" THEN r.body.first ELSE @,
                           !.LastName = IF r.body.last # "" THEN r.body.last ELSE @]
      [] r.route = "ChangePassword" -> SetPassword(r.row, r.body.new)
      [] r.route = "UsersUpdate" ->
             [r.row EXCEPT !.FirstName = IF r.body.first # <<>> THEN r.body.first[1] ELSE @,
                           !.LastName = IF r.body.last # <<>> THEN r.body.last[1] ELSE @,
                           !.Active = IF r.body.active # <<>> THEN r.body.active[1] ELSE @]

\* the handler's write and its response.  The insert of a creation fails on the
\* unique index of email when a row with the address has been committed since
\* the check; Save and Delete are those of models.User.
Write(s) ==
    LET r == Reqs[s] IN
    /\ r.pc \in {"checked", "read"}
    /\ IF r.route \in CreateRoutes
       THEN IF UserExists(r.body.email)
            THEN /\ SetReq(s, Failed(r, "duplicate key value violates unique constraint"))
                 /\ UNCHANGED <<users, nextId>>
            ELSE /\ nextId <= MaxUsers
                 /\ users' = Create(NewUser(r))
                 /\ nextId' = nextId + 1
                 /\ SetReq(s, Done(r, StatusCreated, newUserResponse(NewRow(NewUser(r)))))
       ELSE IF r.route = "UsersDelete"
       THEN /\ users' = Delete(r.row)
            /\ SetReq(s, Done(r, StatusNoContent, NoBody))
            /\ UNCHANGED nextId
       ELSE /\ users' = Save(Changed(r))
            /\ SetReq(s, Done(r, StatusOK,
                              IF r.route = "ChangePassword"
                              THEN [kind |-> "message",
                                    message |-> "Password changed successfully"]
                              ELSE newUserResponse(Saved(Changed(r)))))
            /\ UNCHANGED nextId
    /\ UNCHANGED <<now, tokens>>

\* slot 1 takes a creation or a request of a user on their own account, slot 2
\* a creation or an admin's request on a target
RaceRoutes(s) == CreateRoutes \cup (IF s = 1 THEN SelfRoutes ELSE TargetRoutes)

RaceHeaders(route) == IF route = "RegisterUser" THEN {NoHeader} ELSE ClientHeaders \ {NoHeader}

NextRace ==
    \/ RegisterUser(RaceEmail, ValidPassword, "", "")
    \/ \E e \in Emails : Login(e, IF e = AdminEmail THEN "admin123" ELSE ValidPassword)
    \/ \E s \in Slots :
           \E route \in RaceRoutes(s) :
               \E h \in RaceHeaders(route), body \in RaceBodies(route) :
                   Arrive(s, route, h, body)
    \/ \E s \in Slots : Lookup(s)
    \/ \E s \in Slots : Write(s)

SpecRace == Init /\ [][NextRace]_vars

----------------------------------------------------------------------------
\* C33: when two creation requests for the same e-mail address have both been
\* answered and one of them created the user, there is exactly one user with
\* the address and the other request, unless a middleware refused it, was
\* answered 409.
Answered(s) == Concurrent /\ resp.reqs[s].pc = "done"

----------------------------------------------------------------------------
\* C34: when the write of an UpdateCurrentUser or ChangePassword request in
\* flight reaches the store and the caller's row is still stored, it changes
\* the names, or the password hash, and nothing else of the row as it is in
\* the store then: a deactivation committed since the request read the row
\* stays, and so does every other field.
Writes(s) ==
    /\ Concurrent
    /\ resp'.op = "Concurrent"
    /\ resp.reqs[s].pc = "read"
    /\ resp'.reqs[s].pc = "done"

OwnFields(route) ==
    IF route = "ChangePassword" THEN {"PasswordHash", "UpdatedAt"}
    ELSE {"FirstName", "LastName", "UpdatedAt"}

InFlightWriteKeepsDeactivation ==
    [][\A s \in Slots :
           (/\ Writes(s)
            /\ resp.reqs[s].route \in SelfRoutes
            /\ resp.reqs[s].ctx.user_id \in DOMAIN users)
              => \E id \in {resp.reqs[s].ctx.user_id} :
                    /\ id \in DOMAIN users'
                    /\ users'[id].Active = users[id].Active
                    /\ \A f \in DOMAIN users[id] \ OwnFields(resp.reqs[s].route) :
                          users'[id][f] = users[id][f]]_vars

----------------------------------------------------------------------------
\* C35: when the write of an UpdateCurrentUser or ChangePassword request in
\* flight reaches the store after the caller's row has been deleted, the row
\* stays deleted: the write creates no user.
InFlightWriteKeepsDeletion ==
    [][\A s \in Slots :
           (/\ Writes(s)
            /\ resp.reqs[s].route \in SelfRoutes
            /\ resp.reqs[s].ctx.user_id \notin DOMAIN users)
              => DOMAIN users' = DOMAIN users]_vars

----------------------------------------------------------------------------
\* C36: a 200 of ChangePassword, Refresh or Login leaves every issued token
\* that was accepted before it accepted after it, by AuthMiddleware and by the
\* checks of Verify and Refresh; and whatever happened before, Verify and
\* Refresh answer 200 and AuthMiddleware lets through every issued token that
\* has not expired and whose subject is stored and active, a refresh token that
\* was used before included.
Honoured(s) == AuthMiddleware(bearerPrefix \o s).status = 0 /\ Accepted(s)

NoRevocation ==
    [][/\ (/\ Request({"ChangePassword", "RefreshToken", "Login"})
           /\ resp'.status = StatusOK)
             => /\ Issued \subseteq Issued'
                /\ \A s \in Issued : Honoured(s) => Honoured(s)'
       /\ (Request({"VerifyToken", "RefreshToken"}) /\ resp'.cred \in Issued /\ Live(resp'.cred))
             => resp'.status = StatusOK
       /\ (Request(ChainOps) /\ \E s \in Issued : Carries(resp'.cred, s) /\ Live(s))
             => ~Rejected401(resp')]_vars

\* Refresh accepted a refresh token issued at time 0 after its subject changed
\* password at time 1 and another pair had been issued
OldTokenAfterPasswordChangeWitness ==
    /\ resp.op = "RefreshToken"
    /\ resp.status = StatusOK
    /\ resp.cred \in RefreshTokens
    /\ Subject(resp.cred) = 1
    /\ Expiry(resp.cred) = RefreshTTL
    /\ users[1].PasswordHash = Hash("password123")
    /\ users[1].UpdatedAt = 1
    /\ resp.body.refresh_token # resp.cred

----------------------------------------------------------------------------
\* C37: a request to Login, Refresh, Verify, GetCurrentUser, UsersList or
\* UsersShow, answered with any status, and any request that AuthMiddleware or
\* RequireRole turns away, leaves every user record and the next id as they
\* were, so that the token the request carried gets, validated again in the
\* state the request leaves, the result it has just got.
ReadOnlyOps == {"Login", "RefreshToken", "VerifyToken", "GetCurrentUser", "UsersList", "UsersShow"}

ReadsAreReadOnly ==
    [][/\ Request(ReadOnlyOps) => StoreUnchanged
       /\ (Request(ChainOps) /\ ~resp'.handler) => StoreUnchanged
       /\ (Request({"VerifyToken", "RefreshToken"}) /\ resp'.cred \in Issued)
             => (Accepted(resp.cred)' <=> resp'.status = StatusOK)
       /\ Request({"GetCurrentUser", "UsersList", "UsersShow"})
             => ((AuthMiddleware(resp.cred).status = 0)' <=> ~Rejected401(resp'))]_vars

\* Verify answered 200 at time 1 and every stored record is as it was at time 0
VerifyLeavesStoreWitness ==
    /\ resp.op = "VerifyToken"
    /\ resp.status = StatusOK
    /\ now = 1
    /\ Cardinality(tokens) = 2
    /\ \A id \in DOMAIN users : users[id].UpdatedAt = 0

----------------------------------------------------------------------------
(* RegisterUser with its welcome notification.  The handler creates the     *)
(* user, starts the goroutine that publishes the notification and answers;  *)
(* the goroutine runs on its own, before or after the answer.  resp holds   *)
(* the request: status 0 until c.JSON, body the handler's user variable,    *)
(* welcome what has become of the goroutine ("none": not started,           *)
(* "pending": started and not returned, which it may stay forever).         *)

PublishOutcomes == {"published", "failed"}

Handling == resp.op = "RegisterUser" /\ resp.status = 0

\* the handler up to the go statement
RegisterUserSpawn(email, password, first, last) ==
    /\ ~Handling
    /\ IF ~BindRegister(email, password)
       THEN /\ resp' = ValidationError("RegisterUser", <<>>, NoCtx) @@ [welcome |-> "none"]
            /\ UNCHANGED <<users, nextId>>
       ELSE IF UserExists(email)
       THEN /\ resp' = Response("RegisterUser", <<>>, StatusConflict,
                                ErrorBody("User with this email already exists"), NoCtx, TRUE)
                           @@ [welcome |-> "none"]
            /\ UNCHANGED <<users, nextId>>
       ELSE LET user == SetPassword([ID |-> 0, CreatedAt |-> 0, UpdatedAt |-> 0, Email |-> email,
                                     PasswordHash |-> <<>>, FirstName |-> first, LastName |-> last,
                                     Role |-> RoleCustomer, Active |-> TRUE], password)
            IN  /\ nextId <= MaxUsers
                /\ users' = Create(user)
                /\ nextId' = nextId + 1
                /\ resp' = Response("RegisterUser", <<>>, 0, newUserResponse(NewRow(user)), NoCtx, TRUE)
                               @@ [welcome |-> "pending"]
    /\ UNCHANGED <<now, tokens>>

\* the goroutine: messaging.PublishEmailSimple returns, an error is only logged
PublishEmailSimple(outcome) ==
    /\ resp.op = "RegisterUser" /\ resp.welcome = "pending"
    /\ resp' = [resp EXCEPT !.welcome = outcome]
    /\ UNCHANGED <<users, nextId, now, tokens>>

\* mutant: the handler waits for the publication and answers its failure
RegisterUserRespondAfterPublish ==
    /\ Handling /\ resp.welcome # "pending"
    /\ IF resp.welcome = "failed"
       THEN /\ resp' = [resp EXCEPT !.status = StatusInternalServerError,
                                    !.body = ErrorBody("internal error")]
            /\ users' = [id \in DOMAIN users \ {resp.body.id} |-> users[id]]
       ELSE /\ resp' = [resp EXCEPT !.status = StatusCreated]
            /\ UNCHANGED users
    /\ UNCHANGED <<nextId, now, tokens>>

\* c.JSON(http.StatusCreated, newUserResponse(user))
RegisterUserRespond ==
    /\ Handling
    /\ resp' = [resp EXCEPT !.status = StatusCreated]
    /\ UNCHANGED <<users, nextId, now, tokens>>

NextNotify ==
    \/ Tick
    \/ \E e \in Emails, p \in Passwords \cup {ShortPassword}, f \in FirstNames, l \in LastNames :
           RegisterUserSpawn(e, p, f, l)
    \/ \E o \in PublishOutcomes : PublishEmailSimple(o)
    \/ RegisterUserRespond

SpecNotify == Init /\ [][NextNotify]_vars

\* C38: once RegisterUser has created the user, its answer is 201 with the
\* profile of the created user whether the welcome notification has been
\* published, has failed or is still pending, the created record is stored
\* from then on, and the return of the publication changes neither the answer
\* nor the store.
Spawned(r) == r.op = "RegisterUser" /\ r.welcome # "none"

NotificationIsDetached ==
    [][/\ (Spawned(resp) /\ resp.status = 0 /\ resp'.status # 0)
             => /\ resp'.status = StatusCreated
                /\ resp'.body = resp.body
                /\ StoreUnchanged
       /\ (Spawned(resp) /\ Spawned(resp') /\ resp'.welcome # resp.welcome)
             => /\ resp'.status = resp.status
                /\ resp'.body = resp.body
                /\ StoreUnchanged
       /\ Spawned(resp')
             => /\ resp'.body.id \in DOMAIN users'
                /\ newUserResponse(users'[resp'.body.id]) = resp'.body]_vars

\* the publication failed and the request was answered 201 with the stored user
FailedPublishStill201Witness ==
    /\ Spawned(resp)
    /\ resp.welcome = "failed"
    /\ resp.status = StatusCreated
    /\ resp.body.id \in DOMAIN users
    /\ resp.body.email = users[resp.body.id].Email

----------------------------------------------------------------------------
\* C39: whenever a header passes the admin chain, UsersDelete of the caller's
\* own id answers 204 and removes the caller, and UsersUpdate of the caller's
\* own id with active = false answers 200 and stores the caller inactive, even
\* when the caller is the only active admin; and whenever a header carries an
\* issued, unexpired token whose subject has been deleted or deactivated, the
\* next request with it to an admin route is answered 401 by AuthMiddleware
\* without running the handler or touching the store.
SelfDelete(h) ==
    /\ UsersDelete(h, AdminChain(h).ctx.user_id)
    /\ resp'.status = StatusNoContent
    /\ AdminChain(h).ctx.user_id \notin DOMAIN users'

SelfDeactivate(h) ==
    /\ UsersUpdate(h, AdminChain(h).ctx.user_id, <<>>, <<>>, <<FALSE>>)
    /\ resp'.status = StatusOK
    /\ ~users'[AdminChain(h).ctx.user_id].Active

ActiveAdmins == {id \in DOMAIN users : users[id].Role = RoleAdmin /\ users[id].Active}

Turned401(h) ==
    /\ UsersList(h)
    /\ Rejected401(resp')
    /\ StoreUnchanged

NoSelfOrLastAdminGuard ==
    \A h \in ClientHeaders :
        /\ Passes(AdminChain(h)) => (ENABLED SelfDelete(h)) /\ (ENABLED SelfDeactivate(h))
        /\ (\E s \in Issued : Carries(h, s) /\ now < Expiry(s) /\ ~Live(s))
              => /\ AuthMiddleware(h).status = StatusUnauthorized
                 /\ ENABLED Turned401(h)

\* the only admin has removed or deactivated its own account, no active admin
\* is left, and its unexpired token has just been answered 401
NoActiveAdminWitness ==
    /\ ActiveAdmins = {}
    /\ resp.op \in AdminOps
    /\ Rejected401(resp)
    /\ \E s \in Issued : Carries(resp.cred, s) /\ now < Expiry(s) /\ Subject(s) = 1

====
